---- MODULE Spec2Model ----
(***************************************************************************)
(* A model of the scherzo homeserver's request handlers: the session map,  *)
(* the chat tree (member keys, roles-of-user keys, permission nodes), the  *)
(* leave_guild / kick_user / get_message / get_pinned_messages handlers,   *)
(* the profile and emote handlers and the stream_events subscriber loop.   *)
(*                                                                         *)
(* Conventions.  An Option<T> of the source is a set with at most one      *)
(* element ({} is None).  A handler invocation lives in a task slot: a     *)
(* record holding the handler name (op), the position in its code (pc),    *)
(* the authenticated caller, its arguments, its result, and the history    *)
(* of the calls it made to send_event_through_chan (sent) and to           *)
(* dispatch_guild_leave (disp).  Handlers that await between their steps   *)
(* (leave_guild, kick_user) take one action per await point.               *)
(***************************************************************************)
EXTENDS Integers, Sequences, FiniteSets, TLC

\* ---------------------------------------------------------------- bounds
NumUsers == 2
NumTokens == 2

Users == 1..NumUsers
Tokens == 1..NumTokens
\* the bearer token of a request: absent, or one token (known or unknown)
Bearers == {{}} \cup {{k} : k \in Tokens}

\* capacity of a stream's subscription channel (mpsc::channel(64), scaled down)
SubChanCap == 1
\* the number of events a federation queue holds in the model
MaxQueue == 2
\* the number of periods the integrity verifier sleeps through in the model
MaxPeriods == 3
\* the number of requests the server is seen to accept in the model
MaxServed == 2
\* the number of nodes appended to the list in the model
MaxNodes == 3
\* the number of times the clock is seen to advance in the model
MaxTicks == 2
\* the capacity of the broadcast channel (1000 in main.rs:358), and the number of
\* broadcasts the channel accepts in a run
BusCap == 2
MaxEvents == 3

Tasks == {"t1", "t2"}
Streams == {"s1"}
\* the connection slots of the server; the specifications of the subscription
\* handshake use the first one only
AllStreams == {"s1", "s2"}
\* the remote homeservers, and the values an Ed25519 key can take
Hosts == {"h1", "h2"}
KeyVals == {"k1", "k2"}
FedTasks == {"f1", "f2"}
\* the task slot used by the specifications that run one handler at a time
SeqTasks == {"t1"}

\* ------------------------------------------------- the persisted chat tree
\* Guild 42 exists, owned by user 1, with channel 7 holding message 1 ("hi",
\* pinned); guild 43, channel 8 and message 2 are ids that name nothing.
GuildIds == {42, 43}
ChannelIds == {7, 8}
MessageIds == {1, 2}
guilds == {42}
channels == {<<42, 7>>}
guild_owners == [g \in guilds |-> {1}]
messages == [k \in {<<42, 7, 1>>} |-> [id |-> 1, author |-> 1, content |-> "hi"]]
pinned_messages == [k \in channels |-> <<1>>]

\* Emote pack 9 is owned by user 1; the profile tree knows one app id.
PackIds == {9}
EmoteNames == {"wave"}
emote_pack_owner == [p \in PackIds |-> 1]
AppIds == {"app"}
AppDatas == {"data"}

\* Roles of guild 42 in position order (index 1 = highest priority); role 0 is
\* the everyone-role, held by every member, at the last position.
role_positions == [g \in guilds |-> <<5, 0>>]
AssignableRoles == {5}

\* Permission nodes, per (guild, Option<channel>, role), in insertion order.
perm_nodes(g, chan, role) ==
    IF g = 42 /\ chan = {7} /\ role = 5
      THEN << [pattern |-> <<"messages", "view">>, ok |-> FALSE] >>
    ELSE IF g = 42 /\ chan = {} /\ role = 5
      THEN << [pattern |-> <<"user", "manage", "*">>, ok |-> TRUE] >>
    ELSE IF g = 42 /\ chan = {} /\ role = 0
      THEN << [pattern |-> <<"messages", "*">>, ok |-> TRUE] >>
    ELSE << >>

VARIABLES
    valid_sessions,   \* DashMap token -> user id (main.rs:337)
    members,          \* member keys (guild, user) of the chat tree
    user_roles,       \* roles-of-user keys: (guild, user, role)
    task,             \* the handler invocations, one record per task slot
    app_data,         \* profile tree: user metadata keys (user, app_id) -> data
    emotes,           \* emote tree: emote keys (pack, name)
    equipped,         \* emote tree: equipped keys (user, pack)
    stream,           \* the stream_events connections, one record per stream slot
    bus,              \* broadcast channel: the entries it retains, oldest first
    bus_pos,          \* broadcast channel: the number of broadcasts it has accepted
    keys,             \* KeysManager.keys: host -> cached public key
    key_file,         \* the federation key file: absent ({}) or one keypair
    fed,              \* the invocations of the KeysManager operations
    key_log,          \* per host: the keys get_key returned since the last
                      \* invalidation, and whether a call started since then
    id_tree,          \* profile tree: the local-to-foreign and foreign-to-local keys
    sync_queue,       \* sync tree: host -> the events queued for that host
    pull,             \* the invocations of the sync pull handler
    verifier,         \* the integrity verification thread (main.rs:411-428)
    boot,             \* where run() is: startup steps, serving, the admin shell
    db,               \* the database directory: schema version, backups made
    cell,             \* AppendList: the AtomicPtr cells, 0 the list's own
    appender,         \* AppendList: the threads inside append
    cache,            \* mediaproxy CACHE: key -> the metadata and when it was inserted
    clock,            \* the monotonic clock, in seconds
    mp,               \* the invocations of the mediaproxy handlers
    fetch_log,        \* per raw url: when fetch_metadata last succeeded
    profiles,         \* profile tree: the profile keys, user -> profile
    upd               \* the invocations of update_profile_logic

fedvars == <<keys, key_file, fed, key_log>>
\* the variables of the request handlers, the streams and the broadcast channel
corevars == <<valid_sessions, members, user_roles, task, app_data, emotes, equipped,
              stream, bus, bus_pos>>
\* the id mapping of the profile tree
idvars == <<id_tree>>
\* the federation queues of the sync tree
queuevars == <<sync_queue, pull>>
\* the integrity verification thread
verifvars == <<verifier>>
\* the startup of the server
startvars == <<boot, db>>
\* the append list
listvars == <<cell, appender>>
\* what neither the request handlers nor the keys manager touch
proxyvars == <<cache, clock, mp, fetch_log>>

profvars == <<profiles, upd>>

sysvars == <<idvars, queuevars, verifvars, startvars, listvars, proxyvars, profvars>>
chatvars == <<corevars, sysvars>>
vars == <<corevars, fedvars, sysvars>>

\* what the chat handlers and the session operations never touch
others == <<app_data, emotes, equipped, stream, bus, bus_pos, fedvars, sysvars>>

\* ------------------------------------------------------------------ events
GuildSub(g) == [kind |-> "Guild", id |-> g]

\* EventBroadcast carrying stream_event::Event::LeftMember, with no perm_check
\* and an empty context
LeftMember(g, u, reason) ==
    [sub |-> GuildSub(g),
     event |-> [type |-> "LeftMember", guild_id |-> g, member_id |-> u,
                leave_reason |-> reason],
     perm_check |-> {},
     context |-> {}]

HomeserverSub == [kind |-> "Homeserver", id |-> 0]
ActionsSub == [kind |-> "Actions", id |-> 0]

\* EventBroadcast carrying EmotePackEmotesUpdated, targeted at `context`
EmotePackEmotesUpdated(pack, name, context) ==
    [sub |-> HomeserverSub,
     event |-> [type |-> "EmotePackEmotesUpdated", pack_id |-> pack,
                added_emotes |-> << >>, deleted_emotes |-> <<name>>],
     perm_check |-> {},
     context |-> context]

\* EventBroadcast carrying EmotePackDeleted, targeted at `context`
EmotePackDeleted(pack, context) ==
    [sub |-> HomeserverSub,
     event |-> [type |-> "EmotePackDeleted", pack_id |-> pack],
     perm_check |-> {},
     context |-> context]

\* the federation dispatch of a guild leave
GuildLeaveDispatch(g, u) == [kind |-> "UserRemovedFromGuild", guild_id |-> g, user_id |-> u]

\* ------------------------------------------------------ broadcast channel
\* main.rs:358: tokio::sync::broadcast::channel. A receiver is created when a
\* stream is opened and lives as long as the stream's send loop; it reads the
\* channel's entries from its own position `next` on. An entry carries the
\* broadcast and, for the record, the position at which it was published.
Receivers(st) == {s \in DOMAIN st : st[s].send = "running"}

\* the last n entries of b
LastN(b, n) == IF Len(b) > n THEN SubSeq(b, Len(b) - n + 1, Len(b)) ELSE b

\* how many entries some live receiver of st has still to read, pos being the
\* channel's position
Unread(st, pos) ==
    IF Receivers(st) = {} THEN 0
    ELSE pos - (CHOOSE n \in {st[s].next : s \in Receivers(st)} :
                   \A s \in Receivers(st) : n <= st[s].next)

\* the entries the channel still holds for the receivers of st: at most BusCap of
\* them, and none that every live receiver has read
Retained(b, st) ==
    LastN(b, IF Unread(st, bus_pos) > BusCap THEN BusCap ELSE Unread(st, bus_pos))

\* the position of the oldest entry the channel holds
FirstPos == bus_pos - Len(bus)

\* the receiver of stream s has missed entries: the channel overwrote them
Lagging(s) == stream[s].send = "running" /\ stream[s].next < FirstPos

\* the entry the receiver of stream s reads next, if there is one
NextEntry(s) ==
    {bus[i] : i \in {stream[s].next - FirstPos + 1} \cap (1..Len(bus))}

\* a send that puts the broadcast in front of the entries the channel holds
send_event_through_chan_Front(b) ==
    IF Receivers(stream) = {}
      THEN UNCHANGED <<stream, bus, bus_pos>>
      ELSE /\ bus_pos < MaxEvents
           /\ bus' = LastN(<<[pos |-> bus_pos, b |-> b]>> \o bus, BusCap)
           /\ bus_pos' = bus_pos + 1
           /\ UNCHANGED stream

\* a send that waits until every receiver has room
send_event_through_chan_Blocking(b) ==
    IF Receivers(stream) = {}
      THEN UNCHANGED <<stream, bus, bus_pos>>
      ELSE /\ bus_pos < MaxEvents
           /\ Unread(stream, bus_pos) < BusCap
           /\ bus' = LastN(Append(bus, [pos |-> bus_pos, b |-> b]), BusCap)
           /\ bus_pos' = bus_pos + 1
           /\ UNCHANGED stream

\* send_event_through_chan (profile/mod.rs:38-48): broadcast_send.send(..), its
\* result dropped. With no receiver the send fails and the broadcast is lost;
\* otherwise the channel takes it, overwriting its oldest entry when full. The
\* sender never waits.
send_event_through_chan(b) ==
    IF Receivers(stream) = {}
      THEN UNCHANGED <<stream, bus, bus_pos>>
      ELSE /\ bus_pos < MaxEvents
           /\ bus' = LastN(Append(bus, [pos |-> bus_pos, b |-> b]), BusCap)
           /\ bus_pos' = bus_pos + 1
           /\ UNCHANGED stream

\* the state the publishing chat handlers leave alone
quiet == <<app_data, emotes, equipped, fedvars, sysvars>>

\* ------------------------------------------------------------- task slots
Idle ==
    [op |-> "none", pc |-> "idle", bearer |-> {}, caller |-> {}, guild |-> 0, arg |-> 0,
     result |-> "none", err |-> {}, data |-> {}, sent |-> << >>, disp |-> << >>]

\* the handler returns: Err(result) or Ok
Finished(tk, result) == [tk EXCEPT !.pc = "done", !.result = result]

\* the handler returns the PermissionDenied(permission, scope) of check_perms
Denied(tk, name, chan) ==
    [tk EXCEPT !.pc = "done", !.result = "PermissionDenied",
               !.err = {[perm |-> name, guild |-> tk.guild, channel |-> chan]}]

IsIdle(t) == task[t].pc = "idle"
CallerOf(tk) == CHOOSE u \in tk.caller : TRUE

\* ---------------------------------------------------------------- sessions
\* valid_sessions.auth(&request): the bearer token's user, or Unauthenticated ({})
auth(bearer) ==
    {valid_sessions[k] : k \in bearer \cap DOMAIN valid_sessions}

\* a handler invocation after `valid_sessions.auth(&request)?` and the decoding
\* of its request: ended with Unauthenticated, or at position pc
NewTask(op, bearer, g, arg, pc) ==
    [op |-> op, pc |-> IF auth(bearer) = {} THEN "done" ELSE pc,
     bearer |-> bearer, caller |-> auth(bearer), guild |-> g, arg |-> arg,
     result |-> IF auth(bearer) = {} THEN "Unauthenticated" ELSE "none",
     err |-> {}, data |-> {}, sent |-> << >>, disp |-> << >>]

\* login: a fresh random token is minted for the user
Mint(u) ==
    /\ \E k \in Tokens \ DOMAIN valid_sessions :
          valid_sessions' = [x \in DOMAIN valid_sessions \cup {k} |->
                                IF x = k THEN u ELSE valid_sessions[x]]
    /\ UNCHANGED <<members, user_roles, task, others>>

\* a clear_sessions that forgets one session only
ClearValidSessions_One ==
    /\ \E k \in DOMAIN valid_sessions :
          valid_sessions' = [x \in DOMAIN valid_sessions \ {k} |-> valid_sessions[x]]
    /\ UNCHANGED <<members, user_roles, task, others>>

\* admin command clear_sessions
ClearValidSessions ==
    /\ valid_sessions # << >>
    /\ valid_sessions' = << >>
    /\ UNCHANGED <<members, user_roles, task, others>>

\* ------------------------------------------------------ membership, perms
is_user_in_guild(g, u) == <<g, u>> \in members

\* check_guild_user: Ok, or UserNotInGuild
check_guild_user(g, u) ==
    IF is_user_in_guild(g, u) THEN "Ok" ELSE "UserNotInGuild"

\* check_guild_user_channel: membership, then the channel's existence
check_guild_user_channel(g, u, c) ==
    IF ~is_user_in_guild(g, u) THEN "UserNotInGuild"
    ELSE IF <<g, c>> \notin channels THEN "NoSuchChannel"
    ELSE "Ok"

is_user_guild_owner(g, u) == g \in guilds /\ u \in guild_owners[g]

\* the roles a user holds in a guild: the assigned ones and the everyone-role
RolesOf(g, u) == {r \in AssignableRoles : <<g, u, r>> \in user_roles} \cup {0}

\* the user's roles in ascending position (highest priority first)
SortedRolesOf(g, u) ==
    IF g \in guilds
      THEN SelectSeq(role_positions[g], LAMBDA r : r \in RolesOf(g, u))
      ELSE << >>

\* a pattern matches a permission name segment by segment; "*" matches any one
\* segment, and a trailing "*" matches every remaining segment
RECURSIVE matches(_, _)
matches(pattern, name) ==
    IF pattern = << >> THEN name = << >>
    ELSE IF name = << >> THEN FALSE
    ELSE IF Head(pattern) = "*" /\ Len(pattern) = 1 THEN TRUE
    ELSE /\ Head(pattern) \in {"*", Head(name)}
         /\ matches(Tail(pattern), Tail(name))

\* the nodes consulted for a role: scope (guild, channel) first, then (guild, none)
NodesFor(g, chan, role) ==
    IF chan = {} THEN perm_nodes(g, {}, role)
    ELSE perm_nodes(g, chan, role) \o perm_nodes(g, {}, role)

\* all nodes in the order the engine consults them
ConsultedNodes(g, chan, u) ==
    LET roles == SortedRolesOf(g, u)
        F[i \in 0..Len(roles)] ==
            IF i = 0 THEN << >> ELSE F[i - 1] \o NodesFor(g, chan, roles[i])
    IN F[Len(roles)]

\* the first matching node decides; no matching node is a deny
query_has_permission(g, chan, u, name) ==
    LET hits == SelectSeq(ConsultedNodes(g, chan, u),
                          LAMBDA n : matches(n.pattern, name))
    IN hits # << >> /\ Head(hits).ok

\* check_perms(guild, channel, user, permission, must_be_guild_owner = false)
check_perms(g, chan, u, name) ==
    IF is_user_guild_owner(g, u) \/ query_has_permission(g, chan, u, name)
      THEN "Ok" ELSE "PermissionDenied"

\* ------------------------------------------- membership set-up operations
\* join_guild: an authenticated user who is not a member of an existing guild
\* gets a member key
JoinGuild(bearer, g) ==
    /\ g \in guilds
    /\ \E u \in auth(bearer) :
          /\ ~is_user_in_guild(g, u)
          /\ members' = members \cup {<<g, u>>}
    /\ UNCHANGED <<valid_sessions, user_roles, task, others>>

\* manage_user_roles: a caller holding roles.user.manage gives a role to, or
\* takes it from, a member of the guild
ManageUserRoles(bearer, g, target, role) ==
    /\ \E u \in auth(bearer) :
          /\ check_guild_user(g, u) = "Ok"
          /\ check_perms(g, {}, u, <<"roles", "user", "manage">>) = "Ok"
    /\ is_user_in_guild(g, target)
    /\ user_roles' = IF <<g, target, role>> \in user_roles
                       THEN user_roles \ {<<g, target, role>>}
                       ELSE user_roles \cup {<<g, target, role>>}
    /\ UNCHANGED <<valid_sessions, members, task, others>>

\* EventBroadcast carrying Typing, re-checked for messages.view on the channel
TypingEvent(g, c, u) ==
    [sub |-> GuildSub(g),
     event |-> [type |-> "Typing", guild_id |-> g, channel_id |-> c, user_id |-> u],
     perm_check |-> {[guild |-> g, channel |-> {c}, perm |-> <<"messages", "view">>]},
     context |-> {}]

\* typing: a member who may send messages in the channel announces typing
Typing(bearer, g, c) ==
    /\ \E u \in auth(bearer) :
          /\ check_guild_user_channel(g, u, c) = "Ok"
          /\ check_perms(g, {c}, u, <<"messages", "send">>) = "Ok"
          /\ send_event_through_chan(TypingEvent(g, c, u))
    /\ UNCHANGED <<valid_sessions, members, user_roles, task, quiet>>

\* ------------------------------------------------------------ leave_guild
\* leave_guild.rs:7-9: authenticate, decode the request
LeaveGuildStart(t, bearer, g) ==
    /\ IsIdle(t)
    /\ task' = [task EXCEPT ![t] = NewTask("leave_guild", bearer, g, 0, "check")]
    /\ UNCHANGED <<valid_sessions, members, user_roles, others>>

\* leave_guild.rs:13 left out: the member key is removed without the check
LeaveGuildCheck_Skipped(t) ==
    /\ task[t].op = "leave_guild" /\ task[t].pc = "check"
    /\ task' = [task EXCEPT ![t].pc = "remove"]
    /\ UNCHANGED <<valid_sessions, members, user_roles, others>>

\* leave_guild.rs:13: check_guild_user(guild_id, user_id).await?
LeaveGuildCheck(t) ==
    /\ task[t].op = "leave_guild" /\ task[t].pc = "check"
    /\ LET r == check_guild_user(task[t].guild, CallerOf(task[t]))
       IN task' = [task EXCEPT ![t] =
             IF r = "Ok" THEN [@ EXCEPT !.pc = "remove"] ELSE Finished(@, r)]
    /\ UNCHANGED <<valid_sessions, members, user_roles, others>>

\* leave_guild.rs:19 without the `?`: a store error is dropped and the handler
\* goes on to publish
LeaveGuildRemove_ErrorDropped(t) ==
    /\ task[t].op = "leave_guild" /\ task[t].pc = "remove"
    /\ \E db_ok \in BOOLEAN :
          /\ members' = IF db_ok THEN members \ {<<task[t].guild, CallerOf(task[t])>>}
                        ELSE members
          /\ task' = [task EXCEPT ![t].pc = "publish"]
    /\ UNCHANGED <<valid_sessions, user_roles, others>>

\* leave_guild.rs:15-19: remove the member key; a store error ends the handler
LeaveGuildRemove(t) ==
    /\ task[t].op = "leave_guild" /\ task[t].pc = "remove"
    /\ \E db_ok \in BOOLEAN :
          IF db_ok
            THEN /\ members' = members \ {<<task[t].guild, CallerOf(task[t])>>}
                 /\ task' = [task EXCEPT ![t].pc = "publish"]
            ELSE /\ members' = members
                 /\ task' = [task EXCEPT ![t] = Finished(@, "DbError")]
    /\ UNCHANGED <<valid_sessions, user_roles, others>>

\* leave_guild.rs:32 left out: the event is published, nothing is dispatched
LeaveGuildPublish_NoDispatch(t) ==
    /\ task[t].op = "leave_guild" /\ task[t].pc = "publish"
    /\ send_event_through_chan(LeftMember(task[t].guild, CallerOf(task[t]),
                                           "WillinglyUnspecified"))
    /\ task' = [task EXCEPT ![t] =
          Finished([@ EXCEPT !.sent = Append(@, LeftMember(task[t].guild,
                        CallerOf(task[t]), "WillinglyUnspecified"))], "Ok")]
    /\ UNCHANGED <<valid_sessions, members, user_roles, quiet>>

\* leave_guild.rs:21-34: publish LeftMember, dispatch the federation leave
\* (whose error the handler returns), respond
LeaveGuildPublish(t) ==
    /\ task[t].op = "leave_guild" /\ task[t].pc = "publish"
    /\ LET g == task[t].guild
           u == CallerOf(task[t])
           published == [task[t] EXCEPT
                           !.sent = Append(@, LeftMember(g, u, "WillinglyUnspecified"))]
       IN /\ send_event_through_chan(LeftMember(g, u, "WillinglyUnspecified"))
          /\ \E dispatch_ok \in BOOLEAN :
                task' = [task EXCEPT ![t] =
                   IF dispatch_ok
                     THEN Finished([published EXCEPT
                                      !.disp = Append(@, GuildLeaveDispatch(g, u))], "Ok")
                     ELSE Finished(published, "InternalServerError")]
    /\ UNCHANGED <<valid_sessions, members, user_roles, quiet>>

\* -------------------------------------------------------------- kick_user
\* kick_user_logic: one batch removing the member key and the roles-of-user key
kick_user_logic_members(g, u) == members \ {<<g, u>>}

kick_user_logic_roles(g, u) == {k \in user_roles : ~(k[1] = g /\ k[2] = u)}

\* kick_user.rs:14-16 left out: a kick of oneself goes on to the checks
KickUserStart_NoSelfCheck(t, bearer, g, target) ==
    /\ IsIdle(t)
    /\ task' = [task EXCEPT ![t] = NewTask("kick_user", bearer, g, target, "check_caller")]
    /\ UNCHANGED <<valid_sessions, members, user_roles, others>>

\* kick_user.rs:7-16: authenticate, decode, refuse a kick of oneself
KickUserStart(t, bearer, g, target) ==
    /\ IsIdle(t)
    /\ LET new == NewTask("kick_user", bearer, g, target, "check_caller")
       IN task' = [task EXCEPT ![t] =
             IF new.pc # "done" /\ CallerOf(new) = target
               THEN Finished(new, "CantKickOrBanYourself")
               ELSE new]
    /\ UNCHANGED <<valid_sessions, members, user_roles, others>>

\* kick_user.rs:20: check_guild_user(guild_id, user_id).await?
KickUserCheckCaller(t) ==
    /\ task[t].op = "kick_user" /\ task[t].pc = "check_caller"
    /\ LET r == check_guild_user(task[t].guild, CallerOf(task[t]))
       IN task' = [task EXCEPT ![t] =
             IF r = "Ok" THEN [@ EXCEPT !.pc = "check_target"] ELSE Finished(@, r)]
    /\ UNCHANGED <<valid_sessions, members, user_roles, others>>

\* kick_user.rs:21: is_user_in_guild(guild_id, user_to_kick).await?
KickUserCheckTarget(t) ==
    /\ task[t].op = "kick_user" /\ task[t].pc = "check_target"
    /\ task' = [task EXCEPT ![t] =
          IF is_user_in_guild(task[t].guild, task[t].arg)
            THEN [@ EXCEPT !.pc = "check_perms"]
            ELSE Finished(@, "UserNotInGuild")]
    /\ UNCHANGED <<valid_sessions, members, user_roles, others>>

\* kick_user.rs:22-24 left out: any member may kick
KickUserCheckPerms_Skipped(t) ==
    /\ task[t].op = "kick_user" /\ task[t].pc = "check_perms"
    /\ task' = [task EXCEPT ![t].pc = "kick"]
    /\ UNCHANGED <<valid_sessions, members, user_roles, others>>

\* kick_user.rs:22-24: check_perms(guild_id, None, user_id, "user.manage.kick", false)
KickUserCheckPerms(t) ==
    /\ task[t].op = "kick_user" /\ task[t].pc = "check_perms"
    /\ LET r == check_perms(task[t].guild, {}, CallerOf(task[t]),
                            <<"user", "manage", "kick">>)
       IN task' = [task EXCEPT ![t] =
             IF r = "Ok" THEN [@ EXCEPT !.pc = "kick"]
             ELSE Denied(@, <<"user", "manage", "kick">>, {})]
    /\ UNCHANGED <<valid_sessions, members, user_roles, others>>

\* kick_user.rs:26 with user_id in the place of user_to_kick
KickUserLogic_Caller(t) ==
    /\ task[t].op = "kick_user" /\ task[t].pc = "kick"
    /\ \E db_ok \in BOOLEAN :
          IF db_ok
            THEN /\ members' = kick_user_logic_members(task[t].guild, CallerOf(task[t]))
                 /\ user_roles' = kick_user_logic_roles(task[t].guild, CallerOf(task[t]))
                 /\ task' = [task EXCEPT ![t].pc = "publish"]
            ELSE /\ UNCHANGED <<members, user_roles>>
                 /\ task' = [task EXCEPT ![t] = Finished(@, "DbError")]
    /\ UNCHANGED <<valid_sessions, others>>

\* kick_user.rs:26: kick_user_logic(guild_id, user_to_kick).await?
KickUserLogic(t) ==
    /\ task[t].op = "kick_user" /\ task[t].pc = "kick"
    /\ \E db_ok \in BOOLEAN :
          IF db_ok
            THEN /\ members' = kick_user_logic_members(task[t].guild, task[t].arg)
                 /\ user_roles' = kick_user_logic_roles(task[t].guild, task[t].arg)
                 /\ task' = [task EXCEPT ![t].pc = "publish"]
            ELSE /\ UNCHANGED <<members, user_roles>>
                 /\ task' = [task EXCEPT ![t] = Finished(@, "DbError")]
    /\ UNCHANGED <<valid_sessions, others>>

\* kick_user.rs:28-41: publish LeftMember{Kicked} for the target, dispatch the
\* federation leave of the target, respond
KickUserPublish(t) ==
    /\ task[t].op = "kick_user" /\ task[t].pc = "publish"
    /\ LET g == task[t].guild
           target == task[t].arg
           published == [task[t] EXCEPT !.sent = Append(@, LeftMember(g, target, "Kicked"))]
       IN /\ send_event_through_chan(LeftMember(g, target, "Kicked"))
          /\ \E dispatch_ok \in BOOLEAN :
                task' = [task EXCEPT ![t] =
                   IF dispatch_ok
                     THEN Finished([published EXCEPT
                                      !.disp = Append(@, GuildLeaveDispatch(g, target))], "Ok")
                     ELSE Finished(published, "InternalServerError")]
    /\ UNCHANGED <<valid_sessions, members, user_roles, quiet>>

\* ------------------------------------------- get_message, get_pinned_messages
\* get_message_logic: the stored message, or NoSuchMessage
get_message_logic(g, c, m) ==
    IF <<g, c, m>> \in DOMAIN messages THEN {messages[<<g, c, m>>]} ELSE {}

\* get_pinned_messages_logic: the channel's pinned-id list
get_pinned_messages_logic(g, c) ==
    IF <<g, c>> \in DOMAIN pinned_messages THEN pinned_messages[<<g, c>>] ELSE << >>

\* the two checks both read handlers make before reading:
\* check_guild_user_channel, then check_perms(.., Some(channel), .., "messages.view")
ViewChecks(new) ==
    LET g == new.guild
        c == new.arg
        u == CallerOf(new)
    IN IF check_guild_user_channel(g, u, c) # "Ok"
         THEN Finished(new, check_guild_user_channel(g, u, c))
       ELSE IF check_perms(g, {c}, u, <<"messages", "view">>) # "Ok"
         THEN Denied(new, <<"messages", "view">>, {c})
       ELSE new

\* get_message.rs:20 left out: the message is read after the membership and
\* channel check alone
GetMessage_NoPermCheck(t, bearer, g, c, m) ==
    /\ IsIdle(t)
    /\ LET new == NewTask("get_message", bearer, g, c, "checks")
       IN task' = [task EXCEPT ![t] =
             IF new.pc = "done" THEN new
             ELSE IF check_guild_user_channel(g, CallerOf(new), c) # "Ok"
               THEN Finished(new, check_guild_user_channel(g, CallerOf(new), c))
             ELSE IF get_message_logic(g, c, m) = {}
               THEN Finished(new, "NoSuchMessage")
             ELSE Finished([new EXCEPT !.data = get_message_logic(g, c, m)], "Ok")]
    /\ UNCHANGED <<valid_sessions, members, user_roles, others>>

\* get_message.rs:7-28 (no await between its checks and its read)
GetMessage(t, bearer, g, c, m) ==
    /\ IsIdle(t)
    /\ LET new == NewTask("get_message", bearer, g, c, "checks")
       IN task' = [task EXCEPT ![t] =
             IF new.pc = "done" THEN new
             ELSE IF ViewChecks(new).pc = "done" THEN ViewChecks(new)
             ELSE IF get_message_logic(g, c, m) = {}
               THEN Finished(new, "NoSuchMessage")
             ELSE Finished([new EXCEPT !.data = get_message_logic(g, c, m)], "Ok")]
    /\ UNCHANGED <<valid_sessions, members, user_roles, others>>

\* get_pinned_messages.rs:7-34 (read-only; taken as one step)
GetPinnedMessages(t, bearer, g, c) ==
    /\ IsIdle(t)
    /\ LET new == NewTask("get_pinned_messages", bearer, g, c, "checks")
       IN task' = [task EXCEPT ![t] =
             IF new.pc = "done" THEN new
             ELSE IF ViewChecks(new).pc = "done" THEN ViewChecks(new)
             ELSE Finished([new EXCEPT !.data = {get_pinned_messages_logic(g, c)}], "Ok")]
    /\ UNCHANGED <<valid_sessions, members, user_roles, others>>

\* ----------------------------------------------------------- set_app_data
\* set_app_data.rs:8-14: authenticate, insert the user's metadata key
SetAppData(t, bearer, app, data) ==
    /\ IsIdle(t)
    /\ LET new == NewTask("set_app_data", bearer, 0, 0, "insert")
       IN IF new.pc = "done"
            THEN /\ task' = [task EXCEPT ![t] = new]
                 /\ app_data' = app_data
            ELSE \E db_ok \in BOOLEAN :
                    IF db_ok
                      THEN /\ app_data' =
                                [k \in DOMAIN app_data \cup {<<CallerOf(new), app>>} |->
                                    IF k = <<CallerOf(new), app>> THEN data ELSE app_data[k]]
                           /\ task' = [task EXCEPT ![t] = Finished(new, "Ok")]
                      ELSE /\ app_data' = app_data
                           /\ task' = [task EXCEPT ![t] = Finished(new, "DbError")]
    /\ UNCHANGED <<valid_sessions, members, user_roles, emotes, equipped, stream, bus, bus_pos, fedvars, sysvars>>

\* ------------------------------------------------------------------ emotes
\* check_if_emote_pack_owner: Ok, or an error for any other caller
check_if_emote_pack_owner(pack, u) ==
    IF pack \in DOMAIN emote_pack_owner /\ emote_pack_owner[pack] = u
      THEN "Ok" ELSE "NotEmotePackOwner"

\* calculate_users_pack_equipped: the users holding an equipped key for the pack
calculate_users_pack_equipped(pack) == {k[1] : k \in {e \in equipped : e[2] = pack}}

\* equip_emote_pack: an authenticated user equips a pack
EquipEmotePack(bearer, pack) ==
    /\ \E u \in auth(bearer) :
          /\ <<u, pack>> \notin equipped
          /\ equipped' = equipped \cup {<<u, pack>>}
    /\ UNCHANGED <<valid_sessions, members, user_roles, task, app_data, emotes, stream, bus, bus_pos, fedvars, sysvars>>

\* add_emote_to_pack: the pack's owner adds an emote
AddEmoteToPack(bearer, pack, name) ==
    /\ \E u \in auth(bearer) : check_if_emote_pack_owner(pack, u) = "Ok"
    /\ <<pack, name>> \notin emotes
    /\ emotes' = emotes \cup {<<pack, name>>}
    /\ UNCHANGED <<valid_sessions, members, user_roles, task, app_data, equipped, stream, bus, bus_pos, fedvars, sysvars>>

\* delete_emote_from_pack.rs:12 left out: any logged-in caller deletes
DeleteEmoteFromPack_NoOwnerCheck(t, bearer, pack, name) ==
    /\ IsIdle(t)
    /\ LET new == NewTask("delete_emote_from_pack", bearer, 0, pack, "owner")
           b == EmotePackEmotesUpdated(pack, name, calculate_users_pack_equipped(pack))
       IN IF new.pc = "done"
            THEN /\ task' = [task EXCEPT ![t] = new]
                 /\ UNCHANGED <<emotes, stream, bus, bus_pos>>
          ELSE /\ emotes' = emotes \ {<<pack, name>>}
               /\ send_event_through_chan(b)
               /\ task' = [task EXCEPT ![t] =
                     Finished([new EXCEPT !.sent = Append(@, b)], "Ok")]
    /\ UNCHANGED <<valid_sessions, members, user_roles, app_data, equipped, fedvars, sysvars>>

\* delete_emote_from_pack.rs:8-30
DeleteEmoteFromPack(t, bearer, pack, name) ==
    /\ IsIdle(t)
    /\ LET new == NewTask("delete_emote_from_pack", bearer, 0, pack, "owner")
           b == EmotePackEmotesUpdated(pack, name, calculate_users_pack_equipped(pack))
       IN IF new.pc = "done"
            THEN /\ task' = [task EXCEPT ![t] = new]
                 /\ UNCHANGED <<emotes, stream, bus, bus_pos>>
          ELSE IF check_if_emote_pack_owner(pack, CallerOf(new)) # "Ok"
            THEN /\ task' = [task EXCEPT ![t] =
                        Finished(new, check_if_emote_pack_owner(pack, CallerOf(new)))]
                 /\ UNCHANGED <<emotes, stream, bus, bus_pos>>
          ELSE \E db_ok \in BOOLEAN :
                  IF db_ok
                    THEN /\ emotes' = emotes \ {<<pack, name>>}
                         /\ send_event_through_chan(b)
                         /\ task' = [task EXCEPT ![t] =
                               Finished([new EXCEPT !.sent = Append(@, b)], "Ok")]
                    ELSE /\ UNCHANGED <<emotes, stream, bus, bus_pos>>
                         /\ task' = [task EXCEPT ![t] = Finished(new, "DbError")]
    /\ UNCHANGED <<valid_sessions, members, user_roles, app_data, equipped, fedvars, sysvars>>

\* dequip_emote_pack.rs:8-21
DequipEmotePack(t, bearer, pack) ==
    /\ IsIdle(t)
    /\ LET new == NewTask("dequip_emote_pack", bearer, 0, pack, "dequip")
       IN IF new.pc = "done"
            THEN /\ task' = [task EXCEPT ![t] = new]
                 /\ UNCHANGED <<equipped, stream, bus, bus_pos>>
            ELSE \E db_ok \in BOOLEAN :
                    IF db_ok
                      THEN /\ equipped' = equipped \ {<<CallerOf(new), pack>>}
                           /\ send_event_through_chan(EmotePackDeleted(pack, {CallerOf(new)}))
                           /\ task' = [task EXCEPT ![t] =
                                 Finished([new EXCEPT !.sent = Append(@,
                                     EmotePackDeleted(pack, {CallerOf(new)}))], "Ok")]
                      ELSE /\ UNCHANGED <<equipped, stream, bus, bus_pos>>
                           /\ task' = [task EXCEPT ![t] = Finished(new, "DbError")]
    /\ UNCHANGED <<valid_sessions, members, user_roles, app_data, emotes, fedvars, sysvars>>

\* ----------------------------------------------------------- stream_events
NoStream ==
    [status |-> "none", result |-> "none", bearer |-> {}, user |-> {},
     recv |-> "none", send |-> "none", inbox |-> {}, held |-> {},
     sub_chan |-> << >>, subs |-> {}, close_by_send |-> FALSE,
     close_by_recv |-> FALSE, logged |-> FALSE,
     next |-> 0, opened_at |-> 0, sub_at |-> {}, last |-> {},
     send_end |-> "none"]

StreamRequests ==
    {[kind |-> "SubscribeToGuild", guild_id |-> g] : g \in GuildIds}
      \cup {[kind |-> "SubscribeToActions", guild_id |-> 0],
            [kind |-> "SubscribeToHomeserverEvents", guild_id |-> 0]}

StreamUser(s) == CHOOSE u \in stream[s].user : TRUE

streamUnchanged ==
    <<valid_sessions, members, user_roles, task, app_data, emotes, equipped, bus_pos, fedvars, sysvars>>

\* stream_events.rs:10 left out: the loops are spawned for any bearer
StreamEventsStart_NoAuth(s, bearer) ==
    /\ stream[s].status = "none"
    /\ stream' = [stream EXCEPT ![s] =
          [NoStream EXCEPT !.status = "open", !.bearer = bearer, !.user = auth(bearer),
                           !.recv = "running", !.send = "running",
                           !.next = bus_pos, !.opened_at = bus_pos]]
    /\ bus' = Retained(bus, stream')
    /\ UNCHANGED streamUnchanged

\* stream_events.rs:22 with a receiver that starts at the channel's oldest entry
StreamEventsStart_Replay(s, bearer) ==
    /\ stream[s].status = "none"
    /\ stream' = [stream EXCEPT ![s] =
          IF auth(bearer) = {}
            THEN [NoStream EXCEPT !.status = "closed", !.result = "Unauthenticated",
                                  !.bearer = bearer]
            ELSE [NoStream EXCEPT !.status = "open", !.bearer = bearer,
                                  !.user = auth(bearer),
                                  !.recv = "running", !.send = "running",
                                  !.next = FirstPos, !.opened_at = bus_pos]]
    /\ bus' = Retained(bus, stream')
    /\ UNCHANGED streamUnchanged

\* stream_events.rs:10-23: authenticate; create the channels; spawn the send
\* loop (which owns a new receiver of the broadcast channel) and the receive loop
StreamEventsStart(s, bearer) ==
    /\ stream[s].status = "none"
    /\ stream' = [stream EXCEPT ![s] =
          IF auth(bearer) = {}
            THEN [NoStream EXCEPT !.status = "closed", !.result = "Unauthenticated",
                                  !.bearer = bearer]
            ELSE [NoStream EXCEPT !.status = "open", !.bearer = bearer,
                                  !.user = auth(bearer),
                                  !.recv = "running", !.send = "running",
                                  !.next = bus_pos, !.opened_at = bus_pos]]
    /\ bus' = Retained(bus, stream')
    /\ UNCHANGED streamUnchanged

\* the client writes a request on its socket, once its last one has been read
ClientSend(s, req) ==
    /\ stream[s].recv \in {"running", "sending"}
    /\ stream[s].inbox = {}
    /\ stream' = [stream EXCEPT ![s].inbox = {req}]
    /\ bus' = Retained(bus, stream')
    /\ UNCHANGED streamUnchanged

\* stream_events.rs:34-43 left out: SubscribeToGuild is taken without the check
RequestedSub_NoCheck(req, u) ==
    IF req.kind = "SubscribeToGuild" THEN {GuildSub(req.guild_id)}
    ELSE IF req.kind = "SubscribeToActions" THEN {ActionsSub}
    ELSE {HomeserverSub}

\* stream_events.rs:33-47: the subscription a request asks for, or none when
\* check_guild_user refuses it
RequestedSub(req, u) ==
    IF req.kind = "SubscribeToGuild"
      THEN IF check_guild_user(req.guild_id, u) = "Ok"
             THEN {GuildSub(req.guild_id)} ELSE {}
    ELSE IF req.kind = "SubscribeToActions" THEN {ActionsSub}
    ELSE {HomeserverSub}

\* stream_events.rs:26-47: the receive loop reads one request
RecvRequest(s) ==
    /\ stream[s].recv = "running"
    /\ stream[s].inbox # {}
    /\ LET sub == RequestedSub(CHOOSE r \in stream[s].inbox : TRUE, StreamUser(s))
       IN stream' = [stream EXCEPT ![s] =
             IF sub = {}
               THEN [@ EXCEPT !.inbox = {}, !.logged = TRUE]
               ELSE [@ EXCEPT !.inbox = {}, !.held = sub, !.recv = "sending"]]
    /\ bus' = Retained(bus, stream')
    /\ UNCHANGED streamUnchanged

\* stream_events.rs:49: sub_tx.send(sub).await, its result dropped: the
\* subscription is queued when the channel has room, lost when the send loop
\* is gone
RecvSendSub(s) ==
    /\ stream[s].recv = "sending"
    /\ \/ /\ stream[s].send # "running"
          /\ stream' = [stream EXCEPT ![s].held = {}, ![s].recv = "running"]
       \/ /\ stream[s].send = "running"
          /\ Len(stream[s].sub_chan) < SubChanCap
          /\ stream' = [stream EXCEPT
                ![s].sub_chan = Append(@, CHOOSE x \in stream[s].held : TRUE),
                ![s].held = {}, ![s].recv = "running"]
    /\ bus' = Retained(bus, stream')
    /\ UNCHANGED streamUnchanged

\* stream_events.rs:27: bail_result!(res) on a socket error ends the receive loop
RecvError(s) ==
    /\ stream[s].recv = "running"
    /\ stream' = [stream EXCEPT ![s].recv = "failed", ![s].inbox = {}]
    /\ bus' = Retained(bus, stream')
    /\ UNCHANGED streamUnchanged

\* stream_events.rs:52-54: the receive loop sees close_by_send and breaks
RecvCloseBySend(s) ==
    /\ stream[s].recv = "running"
    /\ stream[s].close_by_send
    /\ stream' = [stream EXCEPT ![s].recv = "finished", ![s].inbox = {}]
    /\ bus' = Retained(bus, stream')
    /\ UNCHANGED streamUnchanged

\* the send loop takes a subscription from the channel into its set
SendRecvSub(s) ==
    /\ stream[s].send = "running"
    /\ stream[s].sub_chan # << >>
    /\ stream' = [stream EXCEPT
          ![s].subs = @ \cup {Head(stream[s].sub_chan)},
          ![s].sub_at = IF Head(stream[s].sub_chan) \in stream[s].subs
                          THEN @ ELSE @ \cup {<<Head(stream[s].sub_chan), bus_pos>>},
          ![s].sub_chan = Tail(@)]
    /\ bus' = Retained(bus, stream')
    /\ UNCHANGED streamUnchanged

\* the send loop ends: an outbound send failed, or it saw close_by_recv
SendFinish(s) ==
    /\ stream[s].send = "running"
    /\ stream' = [stream EXCEPT ![s].send = "finished", ![s].sub_chan = << >>,
                                ![s].send_end = "Closed"]
    /\ bus' = Retained(bus, stream')
    /\ UNCHANGED streamUnchanged

\* the perm_check of a broadcast, re-checked for the stream's user
perm_check_passes(perm_check, u) ==
    \A p \in perm_check : check_perms(p.guild, p.channel, u, p.perm) = "Ok"

\* a send loop that does not look at the context
ShouldDeliver_NoContext(s, b) ==
    /\ b.sub \in stream[s].subs
    /\ perm_check_passes(b.perm_check, StreamUser(s))

\* the send loop's filter: the broadcast's sub is subscribed, its context is
\* empty or names the user, its perm_check passes
ShouldDeliver(s, b) ==
    /\ b.sub \in stream[s].subs
    /\ b.context = {} \/ StreamUser(s) \in b.context
    /\ perm_check_passes(b.perm_check, StreamUser(s))

\* the send loop reads the next broadcast from its receiver and delivers it to
\* the client when the filter lets it through and it can be encoded
SendRecvEvent(s) ==
    /\ stream[s].send = "running"
    /\ ~Lagging(s)
    /\ \E e \in NextEntry(s), encode_ok \in BOOLEAN :
          LET outcome == IF ~ShouldDeliver(s, e.b) THEN "filtered"
                         ELSE IF encode_ok THEN "delivered" ELSE "encode_failed"
          IN stream' = [stream EXCEPT
                ![s].next = @ + 1,
                ![s].last = {[pos |-> e.pos, outcome |-> outcome]}]
    /\ bus' = Retained(bus, stream')
    /\ UNCHANGED streamUnchanged

\* the send loop's receiver reports that it lagged: the loop ends with the lag
\* error and delivers nothing more
SendLagged(s) ==
    /\ Lagging(s)
    /\ stream' = [stream EXCEPT ![s].send = "finished", ![s].sub_chan = << >>,
                                ![s].send_end = "LagError"]
    /\ bus' = Retained(bus, stream')
    /\ UNCHANGED streamUnchanged

\* stream_events.rs:61-67: the handler's select sees the send loop end
SelectSend(s) ==
    /\ stream[s].status = "open"
    /\ stream[s].send = "finished"
    /\ stream' = [stream EXCEPT ![s].close_by_send = TRUE, ![s].status = "closed",
                                ![s].result = "Ok"]
    /\ bus' = Retained(bus, stream')
    /\ UNCHANGED streamUnchanged

\* stream_events.rs:68-74: the handler's select sees the receive loop end
SelectRecv(s) ==
    /\ stream[s].status = "open"
    /\ stream[s].recv \in {"finished", "failed"}
    /\ stream' = [stream EXCEPT ![s].close_by_recv = TRUE, ![s].status = "closed",
                                ![s].result = IF stream[s].recv = "failed"
                                                THEN "Err" ELSE "Ok"]
    /\ bus' = Retained(bus, stream')
    /\ UNCHANGED streamUnchanged

\* the connection is gone and both loops have ended: the slot is free again
StreamGone(s) ==
    /\ stream[s].status = "closed"
    /\ stream[s].recv \notin {"running", "sending"}
    /\ stream[s].send # "running"
    /\ stream' = [stream EXCEPT ![s] = NoStream]
    /\ bus' = Retained(bus, stream')
    /\ UNCHANGED streamUnchanged

\* the response has been sent; the slot is free again
Return(t) ==
    /\ task[t].pc = "done"
    /\ task' = [task EXCEPT ![t] = Idle]
    /\ UNCHANGED <<valid_sessions, members, user_roles, others>>

\* ------------------------------------------------------------ KeysManager
\* mod.rs:118
KEY_TAG == "ED25519 PUBLIC KEY"

\* the data a token can carry
Datas == {"d1", "d2"}

\* Token.sig: bytes that are no Ed25519 signature, or the signature that the
\* holder of key `by` made over the data `over`
Sigs ==
    {[wf |-> FALSE, by |-> "none", over |-> "none"]}
      \cup {[wf |-> TRUE, by |-> k, over |-> d] : k \in KeyVals, d \in Datas}

\* the tokens the remote hosts send
TokenSet == {[sig |-> g, data |-> "d1"] : g \in Sigs}

\* a verification that does not look at the data the signature was made over
verify_token_AnyData(token, pubkey) ==
    IF ~token.sig.wf THEN "InvalidTokenSignature"
    ELSE IF token.sig.by = pubkey THEN "Ok"
    ELSE "CouldntVerifyTokenData"

\* mod.rs:120-129
verify_token(token, pubkey) ==
    IF ~token.sig.wf THEN "InvalidTokenSignature"
    ELSE IF token.sig.by = pubkey /\ token.sig.over = token.data THEN "Ok"
    ELSE "CouldntVerifyTokenData"

\* the texts a remote host can answer the key request with: not PEM at all, or
\* PEM with a tag and contents (a key's bytes, or bytes that are none)
NotPem == [parses |-> FALSE, tag |-> "none", contents |-> "none"]
Pems ==
    {NotPem}
      \cup {[parses |-> TRUE, tag |-> KEY_TAG, contents |-> c] : c \in KeyVals \cup {"short"}}
      \cup {[parses |-> TRUE, tag |-> "RSA PUBLIC KEY", contents |-> "k1"]}

\* the outcomes of the key request: the call failed, or the host answered
Replies ==
    {[rpc_ok |-> FALSE, pem |-> NotPem]} \cup {[rpc_ok |-> TRUE, pem |-> p] : p \in Pems}

KeyOk(k) == [result |-> "Ok", err_host |-> {}, key |-> {k}]
CantGetHostKey(host) == [result |-> "CantGetHostKey", err_host |-> {host}, key |-> {}]

\* mod.rs:255-264
parse_pem(pem, host) ==
    IF ~pem.parses THEN CantGetHostKey(host)
    ELSE IF pem.tag # KEY_TAG THEN CantGetHostKey(host)
    ELSE IF pem.contents \notin KeyVals THEN CantGetHostKey(host)
    ELSE KeyOk(pem.contents)

\* DashMap::insert and DashMap::remove on KeysManager.keys
KeysInsert(m, host, k) == [h \in DOMAIN m \cup {host} |-> IF h = host THEN k ELSE m[h]]
KeysRemove(m, host) == [h \in DOMAIN m \ {host} |-> m[h]]

\* mod.rs:282-284
invalidate_key(m, host) == KeysRemove(m, host)

NoKeyLog == [granted |-> {}, stale |-> FALSE]

\* the slot used when one caller at a time uses the KeysManager
SeqFedTasks == {"f1"}

FedIdle ==
    [op |-> "none", pc |-> "idle", host |-> "none", token |-> {}, key |-> {},
     fetched |-> FALSE, generated |-> FALSE, result |-> "none", err_host |-> {}]

\* where a call goes once get_key has given it the key: get_key itself returns
\* it, the inbound authentication goes on to verify the token
AfterKey(op) == IF op = "auth" THEN "verify" ELSE "done"

\* mod.rs:305-308: get_key looks the host up in the cache; on a hit it has the
\* key, on a miss it sends the key request and waits for the answer
GetKeyLookup(f, op, host, token) ==
    /\ fed[f].pc = "idle"
    /\ LET new == [FedIdle EXCEPT !.op = op, !.host = host, !.token = token]
       IN IF host \in DOMAIN keys
            THEN /\ fed' = [fed EXCEPT ![f] =
                       [new EXCEPT !.key = {keys[host]}, !.pc = AfterKey(op),
                                   !.result = IF op = "auth" THEN "none" ELSE "Ok"]]
                 /\ key_log' = [key_log EXCEPT ![host].granted = @ \cup {keys[host]},
                                               ![host].stale = FALSE]
            ELSE /\ fed' = [fed EXCEPT ![f] = [new EXCEPT !.pc = "fetch"]]
                 /\ key_log' = [key_log EXCEPT ![host].stale = FALSE]
    /\ UNCHANGED <<keys, key_file>>
    /\ UNCHANGED chatvars

\* mod.rs:305-322, called on its own
GetKey(f, host) == GetKeyLookup(f, "get_key", host, {})

\* the authentication of an inbound request of `host` carrying `token`: it
\* starts with get_key(host)
Auth(f, host, token) == GetKeyLookup(f, "auth", host, {token})

\* mod.rs:309-321: the answer to the key request arrives; a failed request or
\* a text parse_pem refuses ends the call with CantGetHostKey(host), a key is
\* inserted in the cache and returned
GetKeyFetched(f) ==
    /\ fed[f].pc = "fetch"
    /\ \E reply \in Replies :
          LET host == fed[f].host
              r == IF reply.rpc_ok THEN parse_pem(reply.pem, host) ELSE CantGetHostKey(host)
          IN IF r.result = "Ok"
               THEN /\ keys' = KeysInsert(keys, host, CHOOSE k \in r.key : TRUE)
                    /\ fed' = [fed EXCEPT ![f].key = r.key, ![f].fetched = TRUE,
                                          ![f].pc = AfterKey(fed[f].op),
                                          ![f].result = IF fed[f].op = "auth" THEN "none" ELSE "Ok"]
                    /\ key_log' = [key_log EXCEPT ![host].granted = @ \cup r.key]
               ELSE /\ fed' = [fed EXCEPT ![f].pc = "done", ![f].fetched = TRUE,
                                          ![f].result = r.result, ![f].err_host = r.err_host]
                    /\ UNCHANGED <<keys, key_log>>
    /\ UNCHANGED chatvars
    /\ UNCHANGED key_file
    /\ UNCHANGED chatvars

\* the inbound authentication verifies the token under the key get_key gave
\* it, and invalidates the host's cached key when the verification fails
AuthVerify(f) ==
    /\ fed[f].op = "auth" /\ fed[f].pc = "verify"
    /\ LET host == fed[f].host
           r == verify_token(CHOOSE t \in fed[f].token : TRUE, CHOOSE k \in fed[f].key : TRUE)
       IN /\ fed' = [fed EXCEPT ![f].pc = "done", ![f].result = r]
          /\ IF r = "Ok"
               THEN UNCHANGED <<keys, key_log>>
               ELSE /\ keys' = invalidate_key(keys, host)
                    /\ key_log' = [key_log EXCEPT ![host] = [granted |-> {}, stale |-> TRUE]]
    /\ UNCHANGED key_file
    /\ UNCHANGED chatvars

\* what the key file can hold: a keypair, or bytes that are none
FileContents == KeyVals \cup {"garbage"}

\* a get_own_key that takes every failed read for a missing file
GetOwnKeyRead_AnyError(f) ==
    /\ fed[f].pc = "idle"
    /\ LET new == [FedIdle EXCEPT !.op = "get_own_key"]
       IN \E read_err \in {"none", "NotFound", "PermissionDenied"}, new_key \in KeyVals :
             /\ read_err = "NotFound" <=> key_file = {}
             /\ fed' = [fed EXCEPT ![f] =
                   IF read_err = "none"
                     THEN IF key_file \subseteq KeyVals
                            THEN [new EXCEPT !.pc = "done", !.result = "Ok", !.key = key_file]
                            ELSE [new EXCEPT !.pc = "done", !.result = "CantGetKey"]
                     ELSE [new EXCEPT !.pc = "write", !.key = {new_key},
                                      !.generated = TRUE]]
    /\ UNCHANGED <<keys, key_file, key_log>>
    /\ UNCHANGED chatvars

\* mod.rs:287-293, 298-300: get_own_key reads the key file. A file that was
\* read is the key when KeyPair::from_slice takes it and CantGetKey when not; a
\* missing file makes the call generate a keypair and start writing it; any
\* other read error is CantGetKey
GetOwnKeyRead(f) ==
    /\ fed[f].pc = "idle"
    /\ LET new == [FedIdle EXCEPT !.op = "get_own_key"]
       IN \E read_err \in {"none", "NotFound", "PermissionDenied"}, new_key \in KeyVals :
             /\ read_err = "NotFound" <=> key_file = {}
             /\ fed' = [fed EXCEPT ![f] =
                   IF read_err = "none"
                     THEN IF key_file \subseteq KeyVals
                            THEN [new EXCEPT !.pc = "done", !.result = "Ok", !.key = key_file]
                            ELSE [new EXCEPT !.pc = "done", !.result = "CantGetKey"]
                   ELSE IF read_err = "NotFound"
                     THEN [new EXCEPT !.pc = "write", !.key = {new_key},
                                      !.generated = TRUE]
                     ELSE [new EXCEPT !.pc = "done", !.result = "CantGetKey"]]
    /\ UNCHANGED <<keys, key_file, key_log>>
    /\ UNCHANGED chatvars

\* mod.rs:294-297: the write of the generated keypair ends
GetOwnKeyWrite(f) ==
    /\ fed[f].op = "get_own_key" /\ fed[f].pc = "write"
    /\ \E write_ok \in BOOLEAN :
          IF write_ok
            THEN /\ key_file' = fed[f].key
                 /\ fed' = [fed EXCEPT ![f].pc = "done", ![f].result = "Ok"]
            ELSE /\ fed' = [fed EXCEPT ![f].pc = "done", ![f].result = "CantGetKey",
                                       ![f].key = {}]
                 /\ UNCHANGED key_file
    /\ UNCHANGED chatvars
    /\ UNCHANGED <<keys, key_log>>
    /\ UNCHANGED chatvars

\* the caller has its answer
FedReturn(f) ==
    /\ fed[f].pc = "done"
    /\ fed' = [fed EXCEPT ![f] = FedIdle]
    /\ UNCHANGED <<keys, key_file, key_log>>
    /\ UNCHANGED chatvars

\* ------------------------------------------------- local and foreign ids
\* size_of::<u64>()
U64Size == 8

\* the local ids the server hands out and the ids users have on their own host
LocalUserIds == {3, 4, 260, 513}
ForeignUserIds == {5, 261}

\* u64::to_be_bytes and u64::from_be_bytes
RECURSIVE to_be(_, _)
to_be(n, len) == IF len = 0 THEN << >> ELSE Append(to_be(n \div 256, len - 1), n % 256)

to_be_bytes(n) == to_be(n, U64Size)

RECURSIVE from_be_bytes(_)
from_be_bytes(b) ==
    IF Len(b) = 0 THEN 0
    ELSE 256 * from_be_bytes(SubSeq(b, 1, Len(b) - 1)) + b[Len(b)]

\* the UTF-8 bytes of a host name, and std::str::from_utf8_unchecked on them
HostBytes(h) == IF h = "h1" THEN <<104, 49>> ELSE <<104, 50>>
from_utf8(b) == CHOOSE h \in Hosts : HostBytes(h) = b

\* slice::split_at
split_at(raw, mid) == <<SubSeq(raw, 1, mid), SubSeq(raw, mid + 1, Len(raw))>>

\* the keys of the two directions of the mapping
make_local_to_foreign_user_key(local_id) == <<"local_to_foreign", local_id>>
make_foreign_to_local_user_key(foreign_id, host) == <<"foreign_to_local", foreign_id, host>>

\* a decoding that takes the last byte of the id for the id
local_to_foreign_id_LastByte(local_id) ==
    LET key == make_local_to_foreign_user_key(local_id)
    IN IF key \in DOMAIN id_tree
         THEN LET parts == split_at(id_tree[key], U64Size)
              IN {<<parts[1][U64Size], from_utf8(parts[2])>>}
         ELSE {}

\* profile/mod.rs:128-140: None ({}) or the foreign id and the host
local_to_foreign_id(local_id) ==
    LET key == make_local_to_foreign_user_key(local_id)
    IN IF key \in DOMAIN id_tree
         THEN LET parts == split_at(id_tree[key], U64Size)
              IN {<<from_be_bytes(parts[1]), from_utf8(parts[2])>>}
         ELSE {}

\* profile/mod.rs:142-150: None ({}) or the local id
foreign_to_local_id(foreign_id, host) ==
    LET key == make_foreign_to_local_user_key(foreign_id, host)
    IN IF key \in DOMAIN id_tree THEN {from_be_bytes(id_tree[key])} ELSE {}

\* Batch::insert on the profile tree
TreeInsert(tree, key, value) ==
    [k \in DOMAIN tree \cup {key} |-> IF k = key THEN value ELSE tree[k]]

\* the first login of the user `foreign_id` of `host` on this server: a user
\* that has a local id keeps it, another gets the new id `local_id` and both
\* directions of the mapping are written in one batch
LoginFederated(foreign_id, host, local_id) ==
    /\ IF foreign_to_local_id(foreign_id, host) # {}
         THEN UNCHANGED id_tree
         ELSE /\ local_to_foreign_id(local_id) = {}
              /\ id_tree' =
                   TreeInsert(
                     TreeInsert(id_tree, make_local_to_foreign_user_key(local_id),
                                to_be_bytes(foreign_id) \o HostBytes(host)),
                     make_foreign_to_local_user_key(foreign_id, host),
                     to_be_bytes(local_id))
    /\ UNCHANGED <<corevars, fedvars, queuevars, verifvars, startvars, listvars, proxyvars, profvars>>

\* ------------------------------------------------- the keys of the chat tree
\* composite keys: big-endian ids joined by one-byte tags
make_guild_key(g) == to_be_bytes(g)
make_chan_key(g, c) == to_be_bytes(g) \o <<8>> \o to_be_bytes(c)
make_member_key(g, u) == to_be_bytes(g) \o <<9>> \o to_be_bytes(u)
make_guild_user_roles_key(g, u) == to_be_bytes(g) \o <<2>> \o to_be_bytes(u)
make_guild_mem_prefix(g) == to_be_bytes(g) \o <<9>>

\* the keys the chat tree holds in the current state
chat_tree_keys ==
    {make_guild_key(g) : g \in guilds}
      \cup {make_chan_key(k[1], k[2]) : k \in channels}
      \cup {make_member_key(k[1], k[2]) : k \in members}
      \cup {make_guild_user_roles_key(k[1], k[2]) : k \in user_roles}

\* Tree::scan_prefix
scan_prefix(tree_keys, prefix) ==
    {k \in tree_keys : Len(k) >= Len(prefix) /\ SubSeq(k, 1, Len(prefix)) = prefix}

\* a member list scanned with the guild id alone as prefix
get_guild_members_logic_GuildPrefix(g) ==
    {from_be_bytes(SubSeq(k, Len(k) - U64Size + 1, Len(k))) :
        k \in scan_prefix(chat_tree_keys, make_guild_key(g))}

\* get_guild_members_logic (called at main.rs:575-578): the user ids of the
\* keys under the guild's member prefix
get_guild_members_logic(g) ==
    LET prefix == make_guild_mem_prefix(g)
    IN {from_be_bytes(split_at(k, Len(prefix))[2]) : k \in scan_prefix(chat_tree_keys, prefix)}

\* ------------------------------------------------------------ sync: pull
PullTasks == {"p1", "p2"}

\* the events a handler hands to the federation
DispatchKinds == {"UserRemovedFromGuild", "UserAddedToGuild"}

\* the key each remote host signs its requests with
HostKey(h) == IF h = "h1" THEN "k1" ELSE "k2"

PullIdle ==
    [pc |-> "idle", claimed |-> "none", token |-> {}, host |-> {}, read |-> {},
     result |-> "none", queue |-> << >>]

\* an event for `host` is put on that host's queue in the sync tree
EnqueueEvent(host, kind) ==
    /\ Len(sync_queue[host]) < MaxQueue
    /\ sync_queue' = [sync_queue EXCEPT ![host] = Append(@, [dest |-> host, kind |-> kind])]
    /\ UNCHANGED <<pull, corevars, fedvars, idvars, verifvars, startvars, listvars, proxyvars, profvars>>

\* SyncServer::auth: the host a request names, when the request's token
\* verifies under that host's key; the error of the verification otherwise
sync_auth(claimed, token) ==
    IF verify_token(token, HostKey(claimed)) = "Ok"
      THEN [result |-> "Ok", host |-> {claimed}]
      ELSE [result |-> verify_token(token, HostKey(claimed)), host |-> {}]

\* SyncServer::get_event_queue: the queue stored under the host's key
get_event_queue(host) == sync_queue[host]

\* pull.rs:7: let host = svc.auth(&request).await?
PullAuth(p, claimed, token) ==
    /\ pull[p].pc = "idle"
    /\ LET a == sync_auth(claimed, token)
           new == [PullIdle EXCEPT !.claimed = claimed, !.token = {token}]
       IN pull' = [pull EXCEPT ![p] =
             IF a.result = "Ok"
               THEN [new EXCEPT !.pc = "queue", !.host = a.host]
               ELSE [new EXCEPT !.pc = "done", !.result = a.result]]
    /\ UNCHANGED <<sync_queue, corevars, fedvars, idvars, verifvars, startvars, listvars, proxyvars, profvars>>

\* a pull that answers with the queue of whichever host has events
PullQueue_AnyHost(p) ==
    /\ pull[p].pc = "queue"
    /\ \E h \in Hosts, db_ok \in BOOLEAN :
          pull' = [pull EXCEPT ![p] =
             IF db_ok
               THEN [@ EXCEPT !.pc = "done", !.result = "Ok", !.read = {h},
                              !.queue = get_event_queue(h)]
               ELSE [@ EXCEPT !.pc = "done", !.result = "DbError", !.read = {h}]]
    /\ UNCHANGED <<sync_queue, corevars, fedvars, idvars, verifvars, startvars, listvars, proxyvars, profvars>>

\* pull.rs:8-9: let queue = svc.get_event_queue(&host)?; the queue is the
\* response
PullQueue(p) ==
    /\ pull[p].pc = "queue"
    /\ \E h \in pull[p].host, db_ok \in BOOLEAN :
          pull' = [pull EXCEPT ![p] =
             IF db_ok
               THEN [@ EXCEPT !.pc = "done", !.result = "Ok", !.read = {h},
                              !.queue = get_event_queue(h)]
               ELSE [@ EXCEPT !.pc = "done", !.result = "DbError", !.read = {h}]]
    /\ UNCHANGED <<sync_queue, corevars, fedvars, idvars, verifvars, startvars, listvars, proxyvars, profvars>>

\* the remote host has its answer
PullReturn(p) ==
    /\ pull[p].pc = "done"
    /\ pull' = [pull EXCEPT ![p] = PullIdle]
    /\ UNCHANGED <<sync_queue, corevars, fedvars, idvars, verifvars, startvars, listvars, proxyvars, profvars>>

\* ------------------------------------------------- startup and verifier
\* main.rs:95, in seconds
INTEGRITY_VERIFICATION_PERIOD == 60

\* the schema version this build expects: the number of its migrations
SchemaVersion == 2

Versions == 0..SchemaVersion

\* main.rs:319: format!("{}_backup_ver_{}", &db_path, current_db_version)
db_backup_name(db_path, current_db_version) == <<db_path, "_backup_ver_", current_db_version>>

\* the stored version, and whether it differs from the version of this build
get_db_version(version) == <<version, version # SchemaVersion>>

BootOpen == [pc |-> "open", current_db_version |-> 0, served |-> 0]
BootShell == [pc |-> "shell", current_db_version |-> SchemaVersion, served |-> 0]
NoVerifier == [pc |-> "unspawned", slept |-> 0, runs |-> 0, found |-> "none"]
VerifierRest == [pc |-> "sleeping", slept |-> 0, runs |-> 0, found |-> "none"]

runOthers == <<corevars, fedvars, idvars, queuevars, listvars, proxyvars, profvars>>

\* main.rs:315-316: the stored version is read; a failure panics
GetDbVersion(ok) ==
    /\ boot.pc = "open"
    /\ boot' = IF ~ok THEN [boot EXCEPT !.pc = "panicked"]
               ELSE [boot EXCEPT !.current_db_version = get_db_version(db.version)[1],
                                 !.pc = IF get_db_version(db.version)[2]
                                          THEN "backup" ELSE "state"]
    /\ UNCHANGED <<db, verifvars, runOthers>>

\* a startup that goes on to migrate whether or not the backup was made
BackupDb_Unchecked(ok) ==
    /\ boot.pc = "backup"
    /\ db' = [db EXCEPT !.backups = @ \cup
                 {[name |-> db_backup_name("db", boot.current_db_version),
                   version |-> db.version, complete |-> ok]}]
    /\ boot' = [boot EXCEPT !.pc = "migrate"]
    /\ UNCHANGED <<verifvars, runOthers>>

\* main.rs:318-329: the database directory is copied to the backup path; a
\* failed copy leaves what it had copied and panics
BackupDb(ok) ==
    /\ boot.pc = "backup"
    /\ db' = [db EXCEPT !.backups = @ \cup
                 {[name |-> db_backup_name("db", boot.current_db_version),
                   version |-> db.version, complete |-> ok]}]
    /\ boot' = [boot EXCEPT !.pc = IF ok THEN "migrate" ELSE "panicked"]
    /\ UNCHANGED <<verifvars, runOthers>>

\* main.rs:331-333: the migrations from the stored version on are applied in
\* order; a failure panics with the migrations applied so far
ApplyMigrations(reached) ==
    /\ boot.pc = "migrate"
    /\ reached \in boot.current_db_version..SchemaVersion
    /\ db' = [db EXCEPT !.version = reached]
    /\ boot' = [boot EXCEPT !.pc = IF reached = SchemaVersion THEN "state" ELSE "panicked"]
    /\ UNCHANGED <<verifvars, runOthers>>

\* main.rs:337-411: the trees are opened, the services are built and the
\* verifier thread is spawned
SpawnVerifier ==
    /\ boot.pc = "state"
    /\ boot' = [boot EXCEPT !.pc = "serve"]
    /\ verifier' = VerifierRest
    /\ UNCHANGED <<db, runOthers>>

\* main.rs:431-463: the server is spawned, the admin shell starts
SpawnServe ==
    /\ boot.pc = "serve"
    /\ boot' = [boot EXCEPT !.pc = "shell"]
    /\ UNCHANGED <<db, verifvars, runOthers>>

\* the spawned server accepts a request and hands it to its handler
Serve ==
    /\ boot.pc \in {"shell", "returned"}
    /\ boot.served < MaxServed
    /\ boot' = [boot EXCEPT !.served = @ + 1]
    /\ UNCHANGED <<db, verifvars, runOthers>>

\* main.rs:651-654: the shell's read fails with something else than an
\* interrupt or the end of input; the loop is left and run returns
ShellError ==
    /\ boot.pc = "shell"
    /\ boot' = [boot EXCEPT !.pc = "returned"]
    /\ UNCHANGED <<db, verifvars, runOthers>>

\* main.rs:127: run has returned, main returns and the process ends with its
\* threads
ProcessExit ==
    /\ boot.pc = "returned"
    /\ boot' = [boot EXCEPT !.pc = "exited"]
    /\ UNCHANGED <<db, verifvars, runOthers>>

Running == boot.pc \notin {"panicked", "exited"}

\* main.rs:416: the verifier sleeps for one period
VerifierSleep ==
    /\ Running
    /\ verifier.pc = "sleeping"
    /\ verifier.slept < MaxPeriods * INTEGRITY_VERIFICATION_PERIOD
    /\ verifier' = [verifier EXCEPT !.pc = "verifying",
                                    !.slept = @ + INTEGRITY_VERIFICATION_PERIOD]
    /\ UNCHANGED <<startvars, runOthers>>

\* main.rs:417-420: chat_tree.verify_integrity().and_then(|_|
\* auth_tree.verify_integrity())
verify_integrity(chat_ok, auth_ok) ==
    IF ~chat_ok THEN "ChatErr" ELSE IF ~auth_ok THEN "AuthErr" ELSE "Ok"

\* a verifier that goes back to sleep whatever the verification found
VerifierVerify_Ignore(chat_ok, auth_ok) ==
    /\ Running
    /\ verifier.pc = "verifying"
    /\ verifier' = [verifier EXCEPT !.runs = @ + 1, !.pc = "sleeping",
                       !.found = verify_integrity(chat_ok, auth_ok)]
    /\ UNCHANGED <<startvars, runOthers>>

\* main.rs:417-426: the chat tree is verified and then the auth tree; an
\* error leaves the loop
VerifierVerify(chat_ok, auth_ok) ==
    /\ Running
    /\ verifier.pc = "verifying"
    /\ verifier' = [verifier EXCEPT !.runs = @ + 1,
                       !.found = verify_integrity(chat_ok, auth_ok),
                       !.pc = IF verify_integrity(chat_ok, auth_ok) = "Ok"
                                THEN "sleeping" ELSE "stopped"]
    /\ UNCHANGED <<startvars, runOthers>>

\* ------------------------------------------------------------ AppendList
Appenders == {"a1", "a2", "a3"}
ListValues == {"x", "y"}

\* a null pointer; location 0 is the AtomicPtr of the list itself, location n
\* the AtomicPtr `next` of node n
null == 0

\* AppendList::new: a null pointer
NewList == [next |-> null, value |-> "none", by |-> "none"]

AppenderIdle == [pc |-> "idle", at |-> 0, p |-> null]

Allocated == DOMAIN cell \ {0}

listOthers == <<corevars, fedvars, idvars, queuevars, verifvars, startvars, proxyvars, profvars>>

\* mod.rs:155-166: append boxes a node with the value and an empty next, and
\* append_list takes its pointer and calls append_ptr on the list
append(a, value) ==
    /\ appender[a].pc = "idle"
    /\ Cardinality(Allocated) < MaxNodes
    /\ LET p == Cardinality(Allocated) + 1
       IN /\ cell' = [n \in DOMAIN cell \cup {p} |->
                         IF n = p THEN [next |-> null, value |-> value, by |-> a] ELSE cell[n]]
          /\ appender' = [appender EXCEPT ![a] = [pc |-> "cas", at |-> 0, p |-> p]]
    /\ UNCHANGED listOthers

\* an append that links its node in front of the list
append_ptr_Front(a) ==
    /\ appender[a].pc = "cas"
    /\ cell' = [cell EXCEPT ![0].next = appender[a].p,
                            ![appender[a].p].next = cell[0].next]
    /\ appender' = [appender EXCEPT ![a] = AppenderIdle]
    /\ UNCHANGED listOthers

\* an append that stores its node without comparing
append_ptr_Store(a) ==
    /\ appender[a].pc = "cas"
    /\ cell' = [cell EXCEPT ![appender[a].at].next = appender[a].p]
    /\ appender' = [appender EXCEPT ![a] = AppenderIdle]
    /\ UNCHANGED listOthers

\* mod.rs:188-204: compare_exchange_weak(null, p): on Ok the append returns;
\* on Err(head) with a node at head the append goes on at that node's next
append_ptr(a) ==
    /\ appender[a].pc = "cas"
    /\ LET at == appender[a].at
           head == cell[at].next
       IN IF head = null
            THEN /\ cell' = [cell EXCEPT ![at].next = appender[a].p]
                 /\ appender' = [appender EXCEPT ![a] = AppenderIdle]
            ELSE /\ appender' = [appender EXCEPT ![a].at = head]
                 /\ UNCHANGED cell
    /\ UNCHANGED listOthers

\* mod.rs:190-201: the weak exchange fails although the pointer is null;
\* Err(null) goes round the loop
append_ptr_spurious(a) ==
    /\ appender[a].pc = "cas"
    /\ cell[appender[a].at].next = null
    /\ UNCHANGED <<cell, appender, listOthers>>

\* mod.rs:225-235: the iterator yields the value of each node it comes to,
\* from the list's pointer along the next pointers to a null
RECURSIVE iter_from(_, _)
iter_from(at, fuel) ==
    IF cell[at].next = null \/ fuel = 0 THEN << >>
    ELSE <<cell[cell[at].next].value>> \o iter_from(cell[at].next, fuel - 1)

\* the nodes the iterator comes to, in its order
RECURSIVE nodes_from(_, _)
nodes_from(at, fuel) ==
    IF cell[at].next = null \/ fuel = 0 THEN << >>
    ELSE <<cell[at].next>> \o nodes_from(cell[at].next, fuel - 1)

iter == iter_from(0, MaxNodes + 2)

\* ------------------------------------------------------------ mediaproxy
MpTasks == {"m1", "m2"}
SeqMpTasks == {"m1"}

\* mediaproxy.rs:35: 30 * 60 seconds
EXPIRY == 30 * 60

\* the clock advances by a second or by a second less than the expiry time
Ticks == {1, EXPIRY - 1}

\* the urls of requests: scheme and authority with nothing after them, with the
\* path "/", and with a path holding a space
RawUrls ==
    {[scheme |-> "http", authority |-> "a", path |-> p] : p \in {"", "/", "/ "}}

\* hyper::Uri, str::parse: a character that no uri holds is refused; the path
\* is kept as it was written
parse(raw_url) ==
    IF raw_url.path = "/ " THEN {} ELSE {raw_url}

\* hyper::Uri::path: "/" when nothing was written after the authority
path(url) == IF url.path = "" THEN "/" ELSE url.path

\* hyper::Uri, to_string: the scheme, "://", the authority, then path()
to_string(url) == [scheme |-> url.scheme, authority |-> url.authority, path |-> path(url)]

MpIdle ==
    [op |-> "none", pc |-> "idle", raw_url |-> {}, result |-> "none", from_cache |-> FALSE,
     http |-> 0, metadata |-> "none"]

mpOthers == <<corevars, fedvars, idvars, queuevars, verifvars, startvars, listvars, profvars>>

\* time passes
Tick(d) ==
    /\ ((clock + d) \div (EXPIRY - 1)) + ((clock + d) % (EXPIRY - 1)) <= MaxTicks
    /\ clock' = clock + d
    /\ UNCHANGED <<cache, mp, fetch_log, mpOthers>>

\* fetch_link_metadata and instant_view call fetch_metadata (mediaproxy.rs:
\* 63-64), can_instant_view looks in the cache itself (196-198)
MpStart(m, op, raw_url) ==
    /\ mp[m].pc = "idle"
    /\ mp' = [mp EXCEPT ![m] = [MpIdle EXCEPT !.op = op, !.pc = "get", !.raw_url = {raw_url}]]
    /\ UNCHANGED <<cache, clock, fetch_log, mpOthers>>

\* uri.parse() with `?` after a lookup that returned nothing
AfterMiss(tk) ==
    IF \E r \in tk.raw_url : parse(r) = {}
      THEN [tk EXCEPT !.pc = "done", !.result = "InvalidUrl"]
      ELSE [tk EXCEPT !.pc = "request"]

\* a lookup that still serves an entry at the moment it is 30 minutes old
GetFromCacheGet_Late(m) ==
    /\ mp[m].pc = "get"
    /\ \E r \in mp[m].raw_url :
          mp' = [mp EXCEPT ![m] =
             IF r \notin DOMAIN cache THEN AfterMiss(@)
             ELSE IF clock - cache[r].since > EXPIRY THEN [@ EXCEPT !.pc = "remove"]
             ELSE [@ EXCEPT !.pc = "done", !.result = "Ok", !.from_cache = TRUE,
                            !.metadata = cache[r].value]]
    /\ UNCHANGED <<cache, clock, fetch_log, mpOthers>>

\* mediaproxy.rs:30-45: CACHE.get(url); an entry that is not expired is the
\* answer; an expired one is let go of, to be removed
GetFromCacheGet(m) ==
    /\ mp[m].pc = "get"
    /\ \E r \in mp[m].raw_url :
          mp' = [mp EXCEPT ![m] =
             IF r \notin DOMAIN cache THEN AfterMiss(@)
             ELSE IF clock - cache[r].since >= EXPIRY THEN [@ EXCEPT !.pc = "remove"]
             ELSE [@ EXCEPT !.pc = "done", !.result = "Ok", !.from_cache = TRUE,
                            !.metadata = cache[r].value]]
    /\ UNCHANGED <<cache, clock, fetch_log, mpOthers>>

\* mediaproxy.rs:36-38: CACHE.remove(url), and the lookup returns nothing
GetFromCacheRemove(m) ==
    /\ mp[m].pc = "remove"
    /\ cache' = [k \in DOMAIN cache \ mp[m].raw_url |-> cache[k]]
    /\ mp' = [mp EXCEPT ![m] = AfterMiss(@)]
    /\ UNCHANGED <<clock, fetch_log, mpOthers>>

\* mediaproxy.rs:69-79 and 205-208: the HTTP request; fetch_metadata returns
\* an error for a failed request or a status that is no success, and
\* can_instant_view answers from the response
HttpGet(m, outcome) ==
    /\ mp[m].pc = "request"
    /\ mp' = [mp EXCEPT ![m] =
          IF outcome = "Failed"
            THEN [@ EXCEPT !.pc = "done", !.http = @ + 1, !.result = "HttpError"]
          ELSE IF mp[m].op = "can_instant_view"
            THEN [@ EXCEPT !.pc = "done", !.http = @ + 1, !.result = "Ok",
                           !.metadata = outcome]
          ELSE IF outcome = "NotFound"
            THEN [@ EXCEPT !.pc = "done", !.http = @ + 1, !.result = "LinkNotFound"]
          ELSE [@ EXCEPT !.pc = "insert", !.http = @ + 1, !.metadata = outcome]]
    /\ UNCHANGED <<cache, clock, fetch_log, mpOthers>>

\* mediaproxy.rs:81-121: the metadata is built from the response and put in
\* the cache under url.to_string(), with the time of the insertion
CacheInsert(m) ==
    /\ mp[m].pc = "insert"
    /\ \E r \in mp[m].raw_url : \E url \in parse(r) :
          /\ cache' = [k \in DOMAIN cache \cup {to_string(url)} |->
                          IF k = to_string(url)
                            THEN [value |-> mp[m].metadata, since |-> clock]
                            ELSE cache[k]]
          /\ fetch_log' = [fetch_log EXCEPT ![r] = {clock}]
    /\ mp' = [mp EXCEPT ![m].pc = "done", ![m].result = "Ok"]
    /\ UNCHANGED <<clock, mpOthers>>

\* the client has its answer
MpReturn(m) ==
    /\ mp[m].pc = "done"
    /\ mp' = [mp EXCEPT ![m] = MpIdle]
    /\ UNCHANGED <<cache, clock, fetch_log, mpOthers>>

\* ---------------------------------------------------------- user profiles
UpdTasks == {"p1", "p2"}

\* Profile::default
DefaultProfile == [user_name |-> "", user_avatar |-> {}, user_status |-> 0, is_bot |-> FALSE]

\* the arguments of update_profile_logic after the user: each given or not
ProfileUpdates ==
    [new_user_name : {{}, {"bob"}}, new_user_avatar : {{}, {"pic"}},
     new_user_status : {{}, {1}}, new_is_bot : {{}, {TRUE}}]

UpdIdle == [pc |-> "idle", user_id |-> 0, new |-> {}, profile |-> {}, result |-> "none"]

profOthers == <<corevars, fedvars, idvars, queuevars, verifvars, startvars, listvars, proxyvars>>

\* profile/mod.rs:88-99: each field that is given is set
apply_update(profile, new) ==
    [user_name |-> IF new.new_user_name = {} THEN profile.user_name
                   ELSE CHOOSE x \in new.new_user_name : TRUE,
     user_avatar |-> IF new.new_user_avatar = {} THEN profile.user_avatar
                     ELSE new.new_user_avatar,
     user_status |-> IF new.new_user_status = {} THEN profile.user_status
                     ELSE CHOOSE x \in new.new_user_status : TRUE,
     is_bot |-> IF new.new_is_bot = {} THEN profile.is_bot
                ELSE CHOOSE x \in new.new_is_bot : TRUE]

\* profile/mod.rs:77-99: the stored profile, or the default one, is read (a
\* store error ends the call) and the given fields are set in the copy
UpdateProfileGet(p, user_id, new, db_ok) ==
    /\ upd[p].pc = "idle"
    /\ upd' = [upd EXCEPT ![p] =
          IF ~db_ok
            THEN [UpdIdle EXCEPT !.pc = "done", !.user_id = user_id, !.new = {new},
                                 !.result = "DbError"]
            ELSE [UpdIdle EXCEPT !.pc = "insert", !.user_id = user_id, !.new = {new},
                     !.profile = {apply_update(IF user_id \in DOMAIN profiles
                                                 THEN profiles[user_id]
                                                 ELSE DefaultProfile, new)}]]
    /\ UNCHANGED <<profiles, profOthers>>

\* profile/mod.rs:101-104: the copy is serialised and inserted under the key
UpdateProfileInsert(p, db_ok) ==
    /\ upd[p].pc = "insert"
    /\ IF db_ok
         THEN /\ profiles' = [u \in DOMAIN profiles \cup {upd[p].user_id} |->
                                 IF u = upd[p].user_id
                                   THEN CHOOSE x \in upd[p].profile : TRUE
                                   ELSE profiles[u]]
              /\ upd' = [upd EXCEPT ![p].pc = "done", ![p].result = "Ok"]
         ELSE /\ UNCHANGED profiles
              /\ upd' = [upd EXCEPT ![p].pc = "done", ![p].result = "DbError"]
    /\ UNCHANGED profOthers

\* ------------------------------------------------------- state at rest
\* the server is up and serving, nothing else is going on
SysIdle ==
    /\ id_tree = << >>
    /\ sync_queue = [h \in Hosts |-> << >>]
    /\ pull = [p \in PullTasks |-> PullIdle]
    /\ verifier = VerifierRest
    /\ boot = BootShell
    /\ db = [version |-> SchemaVersion, backups |-> {}]
    /\ cell = [n \in {0} |-> NewList]
    /\ appender = [a \in Appenders |-> AppenderIdle]
    /\ cache = << >>
    /\ clock = 0
    /\ mp = [m \in MpTasks |-> MpIdle]
    /\ fetch_log = [r \in RawUrls |-> {}]
    /\ profiles = << >>
    /\ upd = [p \in UpdTasks |-> UpdIdle]

\* ------------------------------------------------------------------ system
Init ==
    /\ valid_sessions = << >>
    /\ members = {<<42, 1>>}
    /\ user_roles = {}
    /\ task = [t \in Tasks |-> Idle]
    /\ app_data = << >>
    /\ emotes = {<<9, "wave">>}
    /\ equipped = {}
    /\ stream = [s \in AllStreams |-> NoStream]
    /\ bus = << >>
    /\ bus_pos = 0
    /\ keys = << >>
    /\ key_file = {}
    /\ fed = [f \in FedTasks |-> FedIdle]
    /\ key_log = [h \in Hosts |-> NoKeyLog]
    /\ SysIdle

Next ==
    \/ \E u \in Users : Mint(u)
    \/ ClearValidSessions
    \/ \E b \in Bearers, g \in GuildIds : JoinGuild(b, g)
    \/ \E b \in Bearers, g \in GuildIds, u \in Users, r \in AssignableRoles :
          ManageUserRoles(b, g, u, r)
    \/ \E t \in SeqTasks, b \in Bearers, g \in GuildIds : LeaveGuildStart(t, b, g)
    \/ \E t \in SeqTasks : LeaveGuildCheck(t)
    \/ \E t \in SeqTasks : LeaveGuildRemove(t)
    \/ \E t \in SeqTasks : LeaveGuildPublish(t)
    \/ \E t \in SeqTasks, b \in Bearers, g \in GuildIds, u \in Users :
          KickUserStart(t, b, g, u)
    \/ \E t \in SeqTasks : KickUserCheckCaller(t)
    \/ \E t \in SeqTasks : KickUserCheckTarget(t)
    \/ \E t \in SeqTasks : KickUserCheckPerms(t)
    \/ \E t \in SeqTasks : KickUserLogic(t)
    \/ \E t \in SeqTasks : KickUserPublish(t)
    \/ \E t \in SeqTasks, b \in Bearers, g \in GuildIds, c \in ChannelIds, m \in MessageIds :
          GetMessage(t, b, g, c, m)
    \/ \E t \in SeqTasks, b \in Bearers, g \in GuildIds, c \in ChannelIds :
          GetPinnedMessages(t, b, g, c)
    \/ \E t \in SeqTasks : Return(t)

Spec == Init /\ [][Next]_vars

\* the profile and emote handlers
NextHomeserver ==
    \/ \E t \in SeqTasks, b \in Bearers, app \in AppIds, d \in AppDatas :
          SetAppData(t, b, app, d)
    \/ \E b \in Bearers, p \in PackIds : EquipEmotePack(b, p)
    \/ \E b \in Bearers, p \in PackIds, n \in EmoteNames : AddEmoteToPack(b, p, n)
    \/ \E t \in SeqTasks, b \in Bearers, p \in PackIds, n \in EmoteNames :
          DeleteEmoteFromPack(t, b, p, n)
    \/ \E t \in SeqTasks, b \in Bearers, p \in PackIds : DequipEmotePack(t, b, p)

\* the stream_events handler and its two loops
NextStream ==
    \/ \E s \in Streams, b \in Bearers : StreamEventsStart(s, b)
    \/ \E s \in Streams, req \in StreamRequests : ClientSend(s, req)
    \/ \E s \in Streams : RecvRequest(s)
    \/ \E s \in Streams : RecvSendSub(s)
    \/ \E s \in Streams : RecvError(s)
    \/ \E s \in Streams : RecvCloseBySend(s)
    \/ \E s \in Streams : SendRecvSub(s)
    \/ \E s \in Streams : SendFinish(s)
    \/ \E s \in Streams : SelectSend(s)
    \/ \E s \in Streams : SelectRecv(s)
    \/ \E s \in Streams : StreamGone(s)

\* A server on which user 2 has joined guild 42 and equipped pack 9.
InitAuth ==
    /\ valid_sessions = << >>
    /\ members = {<<42, 1>>, <<42, 2>>}
    /\ user_roles = {}
    /\ task = [t \in Tasks |-> Idle]
    /\ app_data = << >>
    /\ emotes = {<<9, "wave">>}
    /\ equipped = {<<2, 9>>}
    /\ stream = [s \in AllStreams |-> NoStream]
    /\ bus = << >>
    /\ bus_pos = 0
    /\ keys = << >>
    /\ key_file = {}
    /\ fed = [f \in FedTasks |-> FedIdle]
    /\ key_log = [h \in Hosts |-> NoKeyLog]
    /\ SysIdle

NoStreams == \A s \in Streams : stream[s].status = "none"
NoTasks == \A t \in Tasks : IsIdle(t)

\* Every handler of the server, called by one client at a time: sessions are
\* minted and cleared, and each handler runs from its entry to its response.
NextAuth ==
    \/ \E u \in Users : Mint(u)
    \/ ClearValidSessions
    \/ \E t \in SeqTasks, b \in Bearers, g \in GuildIds :
          NoStreams /\ LeaveGuildStart(t, b, g)
    \/ \E t \in SeqTasks : LeaveGuildCheck(t)
    \/ \E t \in SeqTasks : LeaveGuildRemove(t)
    \/ \E t \in SeqTasks : LeaveGuildPublish(t)
    \/ \E t \in SeqTasks, b \in Bearers, g \in GuildIds, u \in Users :
          NoStreams /\ KickUserStart(t, b, g, u)
    \/ \E t \in SeqTasks : KickUserCheckCaller(t)
    \/ \E t \in SeqTasks : KickUserCheckTarget(t)
    \/ \E t \in SeqTasks : KickUserCheckPerms(t)
    \/ \E t \in SeqTasks : KickUserLogic(t)
    \/ \E t \in SeqTasks : KickUserPublish(t)
    \/ \E t \in SeqTasks, b \in Bearers, g \in GuildIds, c \in ChannelIds, m \in MessageIds :
          NoStreams /\ GetMessage(t, b, g, c, m)
    \/ \E t \in SeqTasks, b \in Bearers, g \in GuildIds, c \in ChannelIds :
          NoStreams /\ GetPinnedMessages(t, b, g, c)
    \/ \E t \in SeqTasks, b \in Bearers, app \in AppIds, d \in AppDatas :
          NoStreams /\ SetAppData(t, b, app, d)
    \/ \E t \in SeqTasks, b \in Bearers, p \in PackIds, n \in EmoteNames :
          NoStreams /\ DeleteEmoteFromPack(t, b, p, n)
    \/ \E t \in SeqTasks, b \in Bearers, p \in PackIds :
          NoStreams /\ DequipEmotePack(t, b, p)
    \/ \E t \in SeqTasks : Return(t)
    \/ \E s \in Streams, b \in Bearers : NoTasks /\ StreamEventsStart(s, b)
    \/ \E s \in Streams : RecvError(s)
    \/ \E s \in Streams : RecvCloseBySend(s)
    \/ \E s \in Streams : SendFinish(s)
    \/ \E s \in Streams : SelectSend(s)
    \/ \E s \in Streams : SelectRecv(s)
    \/ \E s \in Streams : StreamGone(s)

SpecAuth == InitAuth /\ [][NextAuth]_vars

\* A server on which every user has logged in once (user k holds token k).
InitStream ==
    /\ valid_sessions = [k \in Tokens \cap Users |-> k]
    /\ members = {<<42, 1>>}
    /\ user_roles = {}
    /\ task = [t \in Tasks |-> Idle]
    /\ app_data = << >>
    /\ emotes = {<<9, "wave">>}
    /\ equipped = {}
    /\ stream = [s \in AllStreams |-> NoStream]
    /\ bus = << >>
    /\ bus_pos = 0
    /\ keys = << >>
    /\ key_file = {}
    /\ fed = [f \in FedTasks |-> FedIdle]
    /\ key_log = [h \in Hosts |-> NoKeyLog]
    /\ SysIdle

\* The subscription handshake of the event streams of logged-in users, while
\* users join guild 42 (what is published meanwhile is the matter of SpecBus).
NextStreams ==
    \/ \E b \in Bearers, g \in GuildIds : JoinGuild(b, g)
    \/ NextStream

SpecStream == InitStream /\ [][NextStreams]_vars

\* an open stream of user u that subscribed to subs before any broadcast
OpenStream(u, subs) ==
    [NoStream EXCEPT !.status = "open", !.bearer = {u}, !.user = {u},
                     !.recv = "running", !.send = "running",
                     !.subs = subs, !.sub_at = {<<x, 0>> : x \in subs}]

\* A server on which every user has logged in once, users 1 and 2 are members of
\* guild 42, user 2 has equipped pack 9; user 1 has a stream subscribed to the
\* homeserver events, user 2 one subscribed to them and to guild 42.
InitBus ==
    /\ valid_sessions = [k \in Tokens \cap Users |-> k]
    /\ members = {<<42, 1>>, <<42, 2>>}
    /\ user_roles = {}
    /\ task = [t \in Tasks |-> Idle]
    /\ app_data = << >>
    /\ emotes = {<<9, "wave">>}
    /\ equipped = {<<2, 9>>}
    /\ stream = [s \in AllStreams |->
                    IF s = "s1" THEN OpenStream(1, {HomeserverSub})
                    ELSE OpenStream(2, {GuildSub(42), HomeserverSub})]
    /\ bus = << >>
    /\ bus_pos = 0
    /\ keys = << >>
    /\ key_file = {}
    /\ fed = [f \in FedTasks |-> FedIdle]
    /\ key_log = [h \in Hosts |-> NoKeyLog]
    /\ SysIdle

\* The fan-out of broadcasts to two open event streams: handlers publish, the
\* send loops read the channel, and a stream whose receiver lagged is closed.
NextBus ==
    \/ \E s \in AllStreams : SendRecvEvent(s)
    \/ \E s \in AllStreams : SendLagged(s)
    \/ \E s \in AllStreams : SelectSend(s)
    \/ \E k \in DOMAIN valid_sessions : Typing({k}, 42, 7)
    \/ \E k \in DOMAIN valid_sessions : ManageUserRoles({k}, 42, 2, 5)
    \/ \E t \in SeqTasks, k \in DOMAIN valid_sessions, pk \in PackIds, n \in EmoteNames :
          DeleteEmoteFromPack(t, {k}, pk, n)
    \/ \E t \in SeqTasks, k \in DOMAIN valid_sessions, pk \in PackIds :
          DequipEmotePack(t, {k}, pk)
    \/ \E t \in SeqTasks : Return(t)

SpecBus == InitBus /\ [][NextBus]_vars

\* A server on which user 2 has a stream subscribed to guild 42, and user 1
\* has none yet.
InitReplay ==
    /\ valid_sessions = [k \in Tokens \cap Users |-> k]
    /\ members = {<<42, 1>>, <<42, 2>>}
    /\ user_roles = {}
    /\ task = [t \in Tasks |-> Idle]
    /\ app_data = << >>
    /\ emotes = {<<9, "wave">>}
    /\ equipped = {}
    /\ stream = [s \in AllStreams |->
                    IF s = "s2" THEN OpenStream(2, {GuildSub(42)}) ELSE NoStream]
    /\ bus = << >>
    /\ bus_pos = 0
    /\ keys = << >>
    /\ key_file = {}
    /\ fed = [f \in FedTasks |-> FedIdle]
    /\ key_log = [h \in Hosts |-> NoKeyLog]
    /\ SysIdle

\* A stream is opened and subscribes to guild 42 while broadcasts are published
\* on it and read by the send loops.
NextReplay ==
    \/ \E s \in Streams, k \in DOMAIN valid_sessions : StreamEventsStart(s, {k})
    \/ \E s \in Streams : ClientSend(s, [kind |-> "SubscribeToGuild", guild_id |-> 42])
    \/ \E s \in Streams : RecvRequest(s)
    \/ \E s \in Streams : RecvSendSub(s)
    \/ \E s \in Streams : SendRecvSub(s)
    \/ \E s \in AllStreams : SendRecvEvent(s)
    \/ \E k \in DOMAIN valid_sessions : Typing({k}, 42, 7)

SpecReplay == InitReplay /\ [][NextReplay]_vars

\* ------------------------------------------------------------------ claims
\* the keys of the stores, and the handler's own step in slot t
stores == <<members, user_roles, app_data, emotes, equipped>>
OwnStep(t) == task'[t] # task[t]
Starts(t, op) == IsIdle(t) /\ task'[t].op = op
NothingSent(tk) == tk.sent = << >> /\ tk.disp = << >>

\* C1: a kick_user whose authenticated caller is the target returns
\* CantKickOrBanYourself at once, for every guild id: it publishes no event,
\* enqueues no federation dispatch and changes no store key (the member key
\* (guild, caller) stays as it was).
C1_KickSelf ==
    [][\A t \in Tasks :
          (task'[t].op = "kick_user" /\ task'[t].caller = {task'[t].arg})
            => /\ task'[t].pc = "done"
               /\ task'[t].result = "CantKickOrBanYourself"
               /\ NothingSent(task'[t])
               /\ OwnStep(t) => UNCHANGED stores]_vars

\* a member of guild 42 has tried to kick themself and is still a member
C1_Witness ==
    \E t \in Tasks :
       /\ task[t].op = "kick_user" /\ task[t].caller = {task[t].arg}
       /\ task[t].result = "CantKickOrBanYourself"
       /\ <<task[t].guild, task[t].arg>> \in members

\* C2 (as claimed): the step of leave_guild that removes the member key leaves
\* no per-(guild, user) key behind, neither the member key nor a roles-of-user key.
C2_LeaveRemovesAllState ==
    [][\A t \in Tasks :
          (task[t].op = "leave_guild" /\ task[t].pc = "remove" /\ task'[t].pc = "publish")
            => /\ <<task[t].guild, CallerOf(task[t])>> \notin members'
               /\ \A k \in user_roles' :
                     ~(k[1] = task[t].guild /\ k[2] = CallerOf(task[t]))]_vars

\* C3: a leave_guild that returns Ok has published exactly one event, the
\* LeftMember{guild, member = caller, WillinglyUnspecified} on Guild(guild) with
\* no perm_check and an empty context, and enqueued exactly one federation leave
\* dispatch for (guild, caller); it publishes in the step after the one that
\* removed the member key.
C3_LeavePublishes ==
    [][\A t \in Tasks :
          /\ (task'[t].op = "leave_guild" /\ task'[t].result = "Ok")
               => /\ Len(task'[t].sent) = 1
                  /\ task'[t].sent[1].sub = [kind |-> "Guild", id |-> task'[t].guild]
                  /\ task'[t].sent[1].event =
                        [type |-> "LeftMember", guild_id |-> task'[t].guild,
                         member_id |-> CallerOf(task'[t]),
                         leave_reason |-> "WillinglyUnspecified"]
                  /\ task'[t].sent[1].perm_check = {}
                  /\ task'[t].sent[1].context = {}
                  /\ task'[t].disp = << [kind |-> "UserRemovedFromGuild",
                                         guild_id |-> task'[t].guild,
                                         user_id |-> CallerOf(task'[t])] >>
          /\ (task'[t].op = "leave_guild" /\ task'[t].sent # task[t].sent
                 /\ task'[t].sent # << >>)
               => task[t].op = "leave_guild" /\ task[t].pc = "publish"
          /\ (task'[t].op = "leave_guild" /\ task'[t].pc = "publish" /\ OwnStep(t))
               => /\ task[t].pc = "remove"
                  /\ <<task[t].guild, CallerOf(task[t])>> \notin members']_vars

\* a leave_guild has returned Ok and the caller's member key is gone
C3_Witness ==
    \E t \in Tasks :
       /\ task[t].op = "leave_guild" /\ task[t].result = "Ok"
       /\ Len(task[t].sent) = 1 /\ Len(task[t].disp) = 1
       /\ <<task[t].guild, CallerOf(task[t])>> \notin members

\* C4: a leave_guild by an authenticated user who is not a member of the guild
\* when the handler checks returns UserNotInGuild; neither its entry nor its
\* check changes a store key, and it has published and dispatched nothing.
C4_LeaveNotMember ==
    [][\A t \in Tasks :
          /\ Starts(t, "leave_guild") => UNCHANGED stores
          /\ (task[t].op = "leave_guild" /\ task[t].pc = "check" /\ OwnStep(t)
                 /\ <<task[t].guild, CallerOf(task[t])>> \notin members)
               => /\ task'[t].pc = "done"
                  /\ task'[t].result = "UserNotInGuild"
                  /\ NothingSent(task'[t])
                  /\ UNCHANGED stores]_vars

\* user 1, a member of guild 42 from the start, is told UserNotInGuild: the
\* member key was removed before this call
C4_Witness ==
    \E t \in Tasks :
       /\ task[t].op = "leave_guild" /\ task[t].result = "UserNotInGuild"
       /\ task[t].caller = {1} /\ task[t].guild = 42
       /\ NothingSent(task[t])


\* C5: get_message and get_pinned_messages return data only when the caller is
\* a member of the guild, the channel exists in the guild and check_perms grants
\* messages.view at (guild, channel); a member who lacks messages.view on an
\* existing channel gets PermissionDenied("messages.view", (guild, channel)) and
\* no data.
C5_ViewGuard ==
    [][\A t \in Tasks :
          (IsIdle(t) /\ task'[t].op \in {"get_message", "get_pinned_messages"}
              /\ task'[t].caller # {})
            => LET tk == task'[t]
                   g == tk.guild
                   c == tk.arg
                   u == CallerOf(tk)
                   member == <<g, u>> \in members
                   exists == <<g, c>> \in channels
                   granted == check_perms(g, {c}, u, <<"messages", "view">>) = "Ok"
               IN /\ tk.pc = "done"
                  /\ tk.data # {} => tk.result = "Ok" /\ member /\ exists /\ granted
                  /\ tk.result = "Ok" => tk.data # {}
                  /\ (member /\ exists /\ ~granted)
                       => /\ tk.result = "PermissionDenied"
                          /\ tk.err = {[perm |-> <<"messages", "view">>,
                                        guild |-> g, channel |-> {c}]}
                          /\ tk.data = {}
                  /\ UNCHANGED stores]_vars

\* user 2, a member of guild 42 whose role 5 is denied messages.view on channel
\* 7, has been refused a read of channel 7
C5_Witness ==
    \E t \in Tasks :
       /\ task[t].op \in {"get_message", "get_pinned_messages"}
       /\ task[t].result = "PermissionDenied"
       /\ task[t].caller = {2} /\ task[t].guild = 42 /\ task[t].arg = 7
       /\ <<42, 2>> \in members /\ <<42, 2, 5>> \in user_roles
       /\ task[t].data = {}

\* C6: each of the eight handlers, entered with an absent or unknown bearer
\* token, ends at once with Unauthenticated: no store key changes, it publishes
\* and dispatches nothing, and stream_events starts neither of its loops.
C6_Unauthenticated ==
    [][/\ \A t \in Tasks :
            (IsIdle(t) /\ task'[t].op # "none"
                /\ task'[t].bearer \cap DOMAIN valid_sessions = {})
              => /\ task'[t].op \in {"leave_guild", "kick_user", "get_message",
                                     "get_pinned_messages", "set_app_data",
                                     "delete_emote_from_pack", "dequip_emote_pack"}
                 /\ task'[t].pc = "done"
                 /\ task'[t].result = "Unauthenticated"
                 /\ task'[t].data = {}
                 /\ NothingSent(task'[t])
                 /\ UNCHANGED <<stores, valid_sessions, stream>>
       /\ \A s \in Streams :
            (stream[s].status = "none" /\ stream'[s].status # "none"
                /\ stream'[s].bearer \cap DOMAIN valid_sessions = {})
              => /\ stream'[s].status = "closed"
                 /\ stream'[s].result = "Unauthenticated"
                 /\ stream'[s].recv = "none" /\ stream'[s].send = "none"
                 /\ stream'[s].subs = {} /\ stream'[s].sub_chan = << >>
                 /\ UNCHANGED <<stores, valid_sessions, task>>]_vars

\* delete_emote_from_pack or dequip_emote_pack was called with a token the server
\* does not know, while another session exists, and pack 9 is as it was
C6_Witness ==
    \E t \in Tasks :
       /\ task[t].op \in {"delete_emote_from_pack", "dequip_emote_pack"}
       /\ task[t].result = "Unauthenticated"
       /\ task[t].bearer # {} /\ valid_sessions # << >>
       /\ <<9, "wave">> \in emotes /\ <<2, 9>> \in equipped

\* C7: a token authenticates as the user it was minted for as long as it is in
\* valid_sessions (the table is a function of the token, so no token has two
\* users); sessions are added one at a time; sessions are removed only all at
\* once, by clear_sessions, after which every token is rejected.
C7_Sessions ==
    [][/\ \A k \in DOMAIN valid_sessions :
            /\ auth({k}) = {valid_sessions[k]}
            /\ k \in DOMAIN valid_sessions' => valid_sessions'[k] = valid_sessions[k]
       /\ Cardinality(DOMAIN valid_sessions' \ DOMAIN valid_sessions) <= 1
       /\ (DOMAIN valid_sessions \ DOMAIN valid_sessions' # {})
            => valid_sessions' = << >>
       /\ \A t \in Tasks :
            (IsIdle(t) /\ task'[t].op # "none")
              => /\ task'[t].caller =
                       {valid_sessions[k] : k \in task'[t].bearer \cap DOMAIN valid_sessions}
                 /\ (task'[t].caller = {}) = (task'[t].result = "Unauthenticated")]_vars

\* a handler is running for a caller whose token has been revoked since
C7_Witness ==
    \E t \in Tasks :
       /\ task[t].caller # {} /\ task[t].pc # "done"
       /\ valid_sessions = << >>

\* C8: kick_user with caller # target goes on to remove the target only past
\* three checks, in this order: caller is a member, target is a member,
\* check_perms grants the caller user.manage.kick at guild scope. The check that
\* fails ends the handler with its error; no check changes a store key,
\* publishes or dispatches.
C8_KickGuard ==
    [][\A t \in Tasks :
          (task[t].op = "kick_user" /\ task'[t].op = "kick_user" /\ OwnStep(t))
            => LET tk == task[t]
                   g == tk.guild
                   caller == CallerOf(tk)
                   checking == tk.pc \in {"check_caller", "check_target", "check_perms"}
               IN /\ tk.pc = "check_caller"
                       => IF <<g, caller>> \in members
                            THEN task'[t].pc = "check_target"
                            ELSE task'[t].pc = "done" /\ task'[t].result = "UserNotInGuild"
                  /\ tk.pc = "check_target"
                       => IF <<g, tk.arg>> \in members
                            THEN task'[t].pc = "check_perms"
                            ELSE task'[t].pc = "done" /\ task'[t].result = "UserNotInGuild"
                  /\ tk.pc = "check_perms"
                       => IF check_perms(g, {}, caller, <<"user", "manage", "kick">>) = "Ok"
                            THEN task'[t].pc = "kick"
                            ELSE /\ task'[t].pc = "done"
                                 /\ task'[t].result = "PermissionDenied"
                                 /\ task'[t].err = {[perm |-> <<"user", "manage", "kick">>,
                                                     guild |-> g, channel |-> {}]}
                  /\ checking => UNCHANGED stores /\ NothingSent(task'[t])
                  /\ task'[t].pc = "kick" => tk.pc = "check_perms"
                  /\ (members' # members \/ task'[t].sent # tk.sent
                         \/ task'[t].disp # tk.disp)
                       => tk.pc \in {"kick", "publish"}]_vars

\* user 2, a member without user.manage.kick, was refused the kick of member 1
C8_Witness ==
    \E t \in Tasks :
       /\ task[t].op = "kick_user" /\ task[t].result = "PermissionDenied"
       /\ task[t].caller = {2} /\ task[t].arg = 1
       /\ <<task[t].guild, 1>> \in members /\ <<task[t].guild, 2>> \in members
       /\ NothingSent(task[t])

\* C9: the removing step of kick_user takes the target's member key, and no
\* other, out of the store, so the caller's membership is as before; a kick_user
\* that returns Ok has published exactly one LeftMember{guild, member = target,
\* Kicked} on Guild(guild) with empty context and enqueued the federation leave
\* dispatch for the target.
C9_KickEffect ==
    [][\A t \in Tasks :
          /\ (task[t].op = "kick_user" /\ task[t].pc = "kick" /\ task'[t].pc = "publish")
               => /\ members' = members \ {<<task[t].guild, task[t].arg>>}
                  /\ <<task[t].guild, task[t].arg>> \notin members'
                  /\ (<<task[t].guild, CallerOf(task[t])>> \in members')
                        = (<<task[t].guild, CallerOf(task[t])>> \in members)
          /\ (task'[t].op = "kick_user" /\ task'[t].result = "Ok")
               => /\ Len(task'[t].sent) = 1
                  /\ task'[t].sent[1].sub = [kind |-> "Guild", id |-> task'[t].guild]
                  /\ task'[t].sent[1].event =
                        [type |-> "LeftMember", guild_id |-> task'[t].guild,
                         member_id |-> task'[t].arg, leave_reason |-> "Kicked"]
                  /\ task'[t].sent[1].context = {}
                  /\ task'[t].disp = << [kind |-> "UserRemovedFromGuild",
                                         guild_id |-> task'[t].guild,
                                         user_id |-> task'[t].arg] >>]_vars

\* a kick has returned Ok: the caller is a member, the target is not
C9_Witness ==
    \E t \in Tasks :
       /\ task[t].op = "kick_user" /\ task[t].result = "Ok"
       /\ <<task[t].guild, CallerOf(task[t])>> \in members
       /\ <<task[t].guild, task[t].arg>> \notin members
       /\ Len(task[t].sent) = 1 /\ Len(task[t].disp) = 1


\* C10: when the receive loop of an open stream of user u reads
\* SubscribeToGuild(g), it hands Guild(g) on to the stream's subscriptions if
\* and only if (g, u) is a member key at that moment; when it is not, nothing
\* is handed on, the failure is logged, the connection and both loops stay as
\* they were and the receive loop goes on reading. The subscription set gains
\* only what the receive loop handed on.
C10_SubscribeToGuild ==
    [][\A s \in Streams :
          LET st == stream[s]
              nx == stream'[s]
              reads == /\ st.recv = "running" /\ st.inbox # {} /\ nx.inbox = {}
                       /\ nx.recv \in {"running", "sending"}
          IN /\ \A g \in GuildIds :
                  (reads /\ st.inbox = {[kind |-> "SubscribeToGuild", guild_id |-> g]})
                    => IF \E u \in st.user : <<g, u>> \in members
                         THEN /\ nx.held = {[kind |-> "Guild", id |-> g]}
                              /\ nx.recv = "sending"
                         ELSE /\ nx.held = {} /\ nx.logged
                              /\ nx.recv = "running"
                              /\ nx.status = st.status /\ nx.send = st.send
                              /\ nx.subs = st.subs /\ nx.sub_chan = st.sub_chan
             /\ (nx.held # st.held /\ nx.held # {}) => reads
             /\ (Len(nx.sub_chan) > Len(st.sub_chan))
                  => /\ st.recv = "sending" /\ st.send = "running"
                     /\ \E x \in st.held : nx.sub_chan = Append(st.sub_chan, x)
             /\ (st.recv = "sending" /\ nx.recv # "sending" /\ st.send = "running")
                  => \E x \in st.held : nx.sub_chan = Append(st.sub_chan, x)
             /\ (nx.subs # st.subs /\ nx.subs # {})
                  => /\ st.sub_chan # << >>
                     /\ nx.subs = st.subs \cup {Head(st.sub_chan)}]_vars

\* an open stream whose first SubscribeToGuild was refused and logged, and whose
\* next one, for guild 42, has been accepted
C10_Witness ==
    \E s \in Streams :
       /\ stream[s].status = "open" /\ stream[s].send = "running"
       /\ stream[s].logged
       /\ stream[s].subs = {} /\ stream[s].sub_chan = << >>
       /\ stream[s].held = {GuildSub(42)}


\* Two callers of the KeysManager run side by side: inbound requests of the
\* remote hosts are authenticated, keys are looked up and the server's own key
\* is read.
InitFed ==
    /\ valid_sessions = << >>
    /\ members = {}
    /\ user_roles = {}
    /\ task = [t \in Tasks |-> Idle]
    /\ app_data = << >>
    /\ emotes = {}
    /\ equipped = {}
    /\ stream = [s \in AllStreams |-> NoStream]
    /\ bus = << >>
    /\ bus_pos = 0
    /\ keys = << >>
    /\ key_file = {}
    /\ fed = [f \in FedTasks |-> FedIdle]
    /\ key_log = [h \in Hosts |-> NoKeyLog]
    /\ SysIdle

NextFed ==
    \/ \E f \in FedTasks, h \in Hosts : GetKey(f, h)
    \/ \E f \in FedTasks, h \in Hosts, t \in TokenSet : Auth(f, h, t)
    \/ \E f \in FedTasks : GetKeyFetched(f)
    \/ \E f \in FedTasks : AuthVerify(f)
    \/ \E f \in FedTasks : GetOwnKeyRead(f)
    \/ \E f \in FedTasks : GetOwnKeyWrite(f)
    \/ \E f \in FedTasks : FedReturn(f)

SpecFed == InitFed /\ [][NextFed]_vars

\* Users of the remote hosts log in for the first time, or again.
InitIds ==
    /\ valid_sessions = << >>
    /\ members = {}
    /\ user_roles = {}
    /\ task = [t \in Tasks |-> Idle]
    /\ app_data = << >>
    /\ emotes = {}
    /\ equipped = {}
    /\ stream = [s \in AllStreams |-> NoStream]
    /\ bus = << >>
    /\ bus_pos = 0
    /\ keys = << >>
    /\ key_file = {}
    /\ fed = [f \in FedTasks |-> FedIdle]
    /\ key_log = [h \in Hosts |-> NoKeyLog]
    /\ SysIdle

NextIds ==
    \E f \in ForeignUserIds, h \in Hosts, l \in LocalUserIds : LoginFederated(f, h, l)

SpecIds == InitIds /\ [][NextIds]_vars

\* Logged-in users join guild 42, leave it and kick each other, and roles are
\* given and taken.
InitMembers ==
    /\ valid_sessions = [k \in Tokens \cap Users |-> k]
    /\ members = {<<42, 1>>}
    /\ user_roles = {}
    /\ task = [t \in Tasks |-> Idle]
    /\ app_data = << >>
    /\ emotes = {}
    /\ equipped = {}
    /\ stream = [s \in AllStreams |-> NoStream]
    /\ bus = << >>
    /\ bus_pos = 0
    /\ keys = << >>
    /\ key_file = {}
    /\ fed = [f \in FedTasks |-> FedIdle]
    /\ key_log = [h \in Hosts |-> NoKeyLog]
    /\ SysIdle

NextMembers ==
    \/ \E k \in DOMAIN valid_sessions : JoinGuild({k}, 42)
    \/ \E k \in DOMAIN valid_sessions, u \in Users, r \in AssignableRoles :
          ManageUserRoles({k}, 42, u, r)
    \/ \E t \in SeqTasks, k \in DOMAIN valid_sessions : LeaveGuildStart(t, {k}, 42)
    \/ \E t \in SeqTasks : LeaveGuildCheck(t)
    \/ \E t \in SeqTasks : LeaveGuildRemove(t)
    \/ \E t \in SeqTasks : LeaveGuildPublish(t)
    \/ \E t \in SeqTasks, k \in DOMAIN valid_sessions, u \in Users :
          KickUserStart(t, {k}, 42, u)
    \/ \E t \in SeqTasks : KickUserCheckCaller(t)
    \/ \E t \in SeqTasks : KickUserCheckTarget(t)
    \/ \E t \in SeqTasks : KickUserCheckPerms(t)
    \/ \E t \in SeqTasks : KickUserLogic(t)
    \/ \E t \in SeqTasks : KickUserPublish(t)
    \/ \E t \in SeqTasks : Return(t)

SpecMembers == InitMembers /\ [][NextMembers]_vars

\* One caller at a time uses the KeysManager; the key file is missing or holds
\* bytes that are no keypair when the server starts.
InitOwnKey ==
    /\ valid_sessions = << >>
    /\ members = {}
    /\ user_roles = {}
    /\ task = [t \in Tasks |-> Idle]
    /\ app_data = << >>
    /\ emotes = {}
    /\ equipped = {}
    /\ stream = [s \in AllStreams |-> NoStream]
    /\ bus = << >>
    /\ bus_pos = 0
    /\ keys = << >>
    /\ key_file \in {{}, {"garbage"}}
    /\ fed = [f \in FedTasks |-> FedIdle]
    /\ key_log = [h \in Hosts |-> NoKeyLog]
    /\ SysIdle

NextOwnKey ==
    \/ \E f \in SeqFedTasks : GetOwnKeyRead(f)
    \/ \E f \in SeqFedTasks : GetOwnKeyWrite(f)
    \/ \E f \in SeqFedTasks, h \in Hosts : GetKey(f, h)
    \/ \E f \in SeqFedTasks : GetKeyFetched(f)
    \/ \E f \in SeqFedTasks : FedReturn(f)

SpecOwnKey == InitOwnKey /\ [][NextOwnKey]_vars

\* Events are queued for the remote hosts while the hosts pull their queues.
InitPull ==
    /\ valid_sessions = << >>
    /\ members = {}
    /\ user_roles = {}
    /\ task = [t \in Tasks |-> Idle]
    /\ app_data = << >>
    /\ emotes = {}
    /\ equipped = {}
    /\ stream = [s \in AllStreams |-> NoStream]
    /\ bus = << >>
    /\ bus_pos = 0
    /\ keys = << >>
    /\ key_file = {}
    /\ fed = [f \in FedTasks |-> FedIdle]
    /\ key_log = [h \in Hosts |-> NoKeyLog]
    /\ SysIdle

NextPull ==
    \/ \E h \in Hosts, k \in DispatchKinds : EnqueueEvent(h, k)
    \/ \E p \in PullTasks, h \in Hosts, t \in TokenSet : PullAuth(p, h, t)
    \/ \E p \in PullTasks : PullQueue(p)
    \/ \E p \in PullTasks : PullReturn(p)

SpecPull == InitPull /\ [][NextPull]_vars

\* The server starts on a database of any version, runs, and is shut down from
\* its shell.
InitRun ==
    /\ valid_sessions = << >>
    /\ members = {}
    /\ user_roles = {}
    /\ task = [t \in Tasks |-> Idle]
    /\ app_data = << >>
    /\ emotes = {}
    /\ equipped = {}
    /\ stream = [s \in AllStreams |-> NoStream]
    /\ bus = << >>
    /\ bus_pos = 0
    /\ keys = << >>
    /\ key_file = {}
    /\ fed = [f \in FedTasks |-> FedIdle]
    /\ key_log = [h \in Hosts |-> NoKeyLog]
    /\ id_tree = << >>
    /\ sync_queue = [h \in Hosts |-> << >>]
    /\ pull = [p \in PullTasks |-> PullIdle]
    /\ cell = [n \in {0} |-> NewList]
    /\ appender = [a \in Appenders |-> AppenderIdle]
    /\ cache = << >>
    /\ clock = 0
    /\ mp = [m \in MpTasks |-> MpIdle]
    /\ fetch_log = [r \in RawUrls |-> {}]
    /\ profiles = << >>
    /\ upd = [p \in UpdTasks |-> UpdIdle]
    /\ cache = << >>
    /\ clock = 0
    /\ mp = [m \in MpTasks |-> MpIdle]
    /\ fetch_log = [r \in RawUrls |-> {}]
    /\ profiles = << >>
    /\ upd = [p \in UpdTasks |-> UpdIdle]
    /\ profiles = << >>
    /\ upd = [p \in UpdTasks |-> UpdIdle]
    /\ verifier = NoVerifier
    /\ boot = BootOpen
    /\ db \in [version : Versions, backups : {{}}]

NextRun ==
    \/ \E ok \in BOOLEAN : GetDbVersion(ok)
    \/ \E ok \in BOOLEAN : BackupDb(ok)
    \/ \E reached \in Versions : ApplyMigrations(reached)
    \/ SpawnVerifier
    \/ SpawnServe
    \/ Serve
    \/ ShellError
    \/ ProcessExit
    \/ VerifierSleep
    \/ \E chat_ok, auth_ok \in BOOLEAN : VerifierVerify(chat_ok, auth_ok)

SpecRun == InitRun /\ [][NextRun]_vars

\* Threads append to one list.
InitList ==
    /\ valid_sessions = << >>
    /\ members = {}
    /\ user_roles = {}
    /\ task = [t \in Tasks |-> Idle]
    /\ app_data = << >>
    /\ emotes = {}
    /\ equipped = {}
    /\ stream = [s \in AllStreams |-> NoStream]
    /\ bus = << >>
    /\ bus_pos = 0
    /\ keys = << >>
    /\ key_file = {}
    /\ fed = [f \in FedTasks |-> FedIdle]
    /\ key_log = [h \in Hosts |-> NoKeyLog]
    /\ SysIdle

NextList ==
    \/ \E a \in Appenders, v \in ListValues : append(a, v)
    \/ \E a \in Appenders : append_ptr(a)
    \/ \E a \in Appenders : append_ptr_spurious(a)

SpecList == InitList /\ [][NextList]_vars

\* a weak exchange does not fail for ever on a pointer that stays null, and a
\* running thread takes its next step
SpecListFair == SpecList /\ \A a \in Appenders : WF_vars(append_ptr(a))

\* Every user is logged in and a member of guild 42; members leave the guild
\* and kick each other in handlers that run at the same time.
InitRace ==
    /\ valid_sessions = [k \in Tokens \cap Users |-> k]
    /\ members = {<<42, u>> : u \in Users}
    /\ user_roles = {}
    /\ task = [t \in Tasks |-> Idle]
    /\ app_data = << >>
    /\ emotes = {}
    /\ equipped = {}
    /\ stream = [s \in AllStreams |-> NoStream]
    /\ bus = << >>
    /\ bus_pos = 0
    /\ keys = << >>
    /\ key_file = {}
    /\ fed = [f \in FedTasks |-> FedIdle]
    /\ key_log = [h \in Hosts |-> NoKeyLog]
    /\ SysIdle

NextRace ==
    \/ \E t \in Tasks, k \in DOMAIN valid_sessions : LeaveGuildStart(t, {k}, 42)
    \/ \E t \in Tasks : LeaveGuildCheck(t)
    \/ \E t \in Tasks : LeaveGuildRemove(t)
    \/ \E t \in Tasks : LeaveGuildPublish(t)
    \/ \E t \in Tasks, k \in DOMAIN valid_sessions, u \in Users :
          KickUserStart(t, {k}, 42, u)
    \/ \E t \in Tasks : KickUserCheckCaller(t)
    \/ \E t \in Tasks : KickUserCheckTarget(t)
    \/ \E t \in Tasks : KickUserCheckPerms(t)
    \/ \E t \in Tasks : KickUserLogic(t)
    \/ \E t \in Tasks : KickUserPublish(t)

SpecRace == InitRace /\ [][NextRace]_vars

\* Every user is logged in and a member of guild 42, user 1 has a stream
\* subscribed to the homeserver events and user 2 one subscribed to guild 42;
\* members leave the guild or are kicked while the send loops read the channel.
InitLeft ==
    /\ valid_sessions = [k \in Tokens \cap Users |-> k]
    /\ members = {<<42, u>> : u \in Users}
    /\ user_roles = {}
    /\ task = [t \in Tasks |-> Idle]
    /\ app_data = << >>
    /\ emotes = {}
    /\ equipped = {}
    /\ stream = [s \in AllStreams |->
                    IF s = "s1" THEN OpenStream(1, {HomeserverSub})
                    ELSE OpenStream(2, {GuildSub(42)})]
    /\ bus = << >>
    /\ bus_pos = 0
    /\ keys = << >>
    /\ key_file = {}
    /\ fed = [f \in FedTasks |-> FedIdle]
    /\ key_log = [h \in Hosts |-> NoKeyLog]
    /\ SysIdle

NextLeft ==
    \/ \E t \in SeqTasks, k \in DOMAIN valid_sessions : LeaveGuildStart(t, {k}, 42)
    \/ \E t \in SeqTasks : LeaveGuildCheck(t)
    \/ \E t \in SeqTasks : LeaveGuildRemove(t)
    \/ \E t \in SeqTasks : LeaveGuildPublish(t)
    \/ \E t \in SeqTasks, k \in DOMAIN valid_sessions, u \in Users :
          KickUserStart(t, {k}, 42, u)
    \/ \E t \in SeqTasks : KickUserCheckCaller(t)
    \/ \E t \in SeqTasks : KickUserCheckTarget(t)
    \/ \E t \in SeqTasks : KickUserCheckPerms(t)
    \/ \E t \in SeqTasks : KickUserLogic(t)
    \/ \E t \in SeqTasks : KickUserPublish(t)
    \/ \E t \in SeqTasks : Return(t)
    \/ \E s \in AllStreams : SendRecvEvent(s)

SpecLeft == InitLeft /\ [][NextLeft]_vars

\* The mediaproxy handlers are called at the same time while time passes.
InitProxy ==
    /\ valid_sessions = << >>
    /\ members = {}
    /\ user_roles = {}
    /\ task = [t \in Tasks |-> Idle]
    /\ app_data = << >>
    /\ emotes = {}
    /\ equipped = {}
    /\ stream = [s \in AllStreams |-> NoStream]
    /\ bus = << >>
    /\ bus_pos = 0
    /\ keys = << >>
    /\ key_file = {}
    /\ fed = [f \in FedTasks |-> FedIdle]
    /\ key_log = [h \in Hosts |-> NoKeyLog]
    /\ SysIdle

MpOps == {"fetch_metadata", "can_instant_view"}
HttpOutcomes == {"Site", "Media", "NotFound", "Failed"}

NextProxy ==
    \/ \E d \in Ticks : Tick(d)
    \/ \E m \in MpTasks, op \in MpOps, r \in RawUrls : MpStart(m, op, r)
    \/ \E m \in MpTasks : GetFromCacheGet(m)
    \/ \E m \in MpTasks : GetFromCacheRemove(m)
    \/ \E m \in MpTasks, o \in HttpOutcomes : HttpGet(m, o)
    \/ \E m \in MpTasks : CacheInsert(m)
    \/ \E m \in MpTasks : MpReturn(m)

SpecProxy == InitProxy /\ [][NextProxy]_vars

\* The mediaproxy handlers are called one after the other while time passes.
NextSeqProxy ==
    \/ \E d \in Ticks : Tick(d)
    \/ \E m \in SeqMpTasks, op \in MpOps, r \in RawUrls : MpStart(m, op, r)
    \/ \E m \in SeqMpTasks : GetFromCacheGet(m)
    \/ \E m \in SeqMpTasks : GetFromCacheRemove(m)
    \/ \E m \in SeqMpTasks, o \in HttpOutcomes : HttpGet(m, o)
    \/ \E m \in SeqMpTasks : CacheInsert(m)
    \/ \E m \in SeqMpTasks : MpReturn(m)

SpecSeqProxy == InitProxy /\ [][NextSeqProxy]_vars

\* Two calls update profiles at the same time.
InitProfile ==
    /\ valid_sessions = << >>
    /\ members = {}
    /\ user_roles = {}
    /\ task = [t \in Tasks |-> Idle]
    /\ app_data = << >>
    /\ emotes = {}
    /\ equipped = {}
    /\ stream = [s \in AllStreams |-> NoStream]
    /\ bus = << >>
    /\ bus_pos = 0
    /\ keys = << >>
    /\ key_file = {}
    /\ fed = [f \in FedTasks |-> FedIdle]
    /\ key_log = [h \in Hosts |-> NoKeyLog]
    /\ SysIdle

NextProfile ==
    \/ \E p \in UpdTasks, u \in Users, new \in ProfileUpdates, db_ok \in BOOLEAN :
          UpdateProfileGet(p, u, new, db_ok)
    \/ \E p \in UpdTasks, db_ok \in BOOLEAN : UpdateProfileInsert(p, db_ok)

SpecProfile == InitProfile /\ [][NextProfile]_vars

\* the send loop of stream s reads an entry of the channel in this step
Reads(s) == stream[s].send = "running" /\ stream'[s].next = stream[s].next + 1
\* the entry at the receiver's position before the step
EntryRead(s) == bus[stream[s].next - (bus_pos - Len(bus)) + 1]
\* the outcome the send loop recorded for the entry it read in this step
OutcomeOf(s) == {l.outcome : l \in stream'[s].last}

\* C11: the send loop of a stream delivers the broadcast it reads if and only
\* if the broadcast's sub is in the stream's subscription set, its context is
\* empty or contains the stream's user, its perm_check (if any) passes for that
\* user when it is read, and the encoding succeeds; a broadcast that fails one
\* of the first three conditions is filtered out.
C11_DeliveryFilter ==
    [][\A s \in AllStreams :
          Reads(s)
            => LET b == EntryRead(s).b
                   subscribed == b.sub \in stream[s].subs
                   targeted == b.context = {} \/ stream[s].user \cap b.context # {}
                   permitted == \A p \in b.perm_check : \A u \in stream[s].user :
                                   check_perms(p.guild, p.channel, u, p.perm) = "Ok"
               IN /\ stream'[s].last # {}
                  /\ OutcomeOf(s) = {"delivered"} => subscribed /\ targeted /\ permitted
                  /\ (subscribed /\ targeted /\ permitted)
                       => OutcomeOf(s) \subseteq {"delivered", "encode_failed"}
                  /\ ~(subscribed /\ targeted /\ permitted) => OutcomeOf(s) = {"filtered"}]_vars

\* the same broadcast has been delivered to one stream and filtered out by the
\* other
C11_Witness ==
    \E s1, s2 \in AllStreams : \E l1 \in stream[s1].last, l2 \in stream[s2].last :
       /\ l1.pos = l2.pos
       /\ l1.outcome = "delivered" /\ l2.outcome = "filtered"

\* C12: a send loop reads the broadcasts in the order in which they were
\* published (each one it reads was published after the one it read before), so
\* the ones it delivers reach the client in publish order.
C12_PublishOrder ==
    [][\A s \in AllStreams :
          Reads(s)
            => /\ \A l \in stream[s].last : l.pos < EntryRead(s).pos
               /\ \A l \in stream'[s].last : l.pos = EntryRead(s).pos]_vars

\* a stream has been delivered the first two broadcasts, one after the other
C12_Witness ==
    \E s \in AllStreams :
       /\ stream[s].next = 2
       /\ stream[s].last = {[pos |-> 1, outcome |-> "delivered"]}
       /\ stream[s].opened_at = 0

C14_NoReplay ==
    [][\A s \in AllStreams :
          (Reads(s) /\ OutcomeOf(s) = {"delivered"})
            => LET e == EntryRead(s)
               IN /\ e.pos >= stream[s].opened_at
                  /\ e.b.sub.kind = "Guild"
                       => \A a \in stream[s].sub_at : a[1] = e.b.sub => e.pos >= a[2]]_vars

\* C14: a stream is never delivered a broadcast published before the stream
\* was opened, and a broadcast of a guild is delivered only if the subscription
\* to that guild is in the stream's set when the send loop reads the broadcast
\* (a broadcast published after the stream opened and before the subscription
\* was added is delivered if the send loop reads it after the subscription).
C14_NoReplayBeforeOpen ==
    [][\A s \in AllStreams :
          (Reads(s) /\ OutcomeOf(s) = {"delivered"})
            => LET e == EntryRead(s)
               IN /\ e.pos >= stream[s].opened_at
                  /\ e.b.sub \in stream[s].subs
                  /\ \E a \in stream[s].sub_at : a[1] = e.b.sub]_vars

\* a stream opened after a broadcast was published has been delivered a later
\* broadcast of the guild it subscribed to
C14_Witness ==
    \E s \in AllStreams : \E l \in stream[s].last :
       /\ stream[s].opened_at > 0
       /\ l.outcome = "delivered" /\ l.pos >= stream[s].opened_at
       /\ \E a \in stream[s].sub_at : a[1].kind = "Guild" /\ a[2] <= l.pos


\* the broadcast a publisher sent in this step
Published == bus'[Len(bus')]

\* C15: the EmotePackEmotesUpdated of delete_emote_from_pack reaches only
\* users that have the pack equipped when it is published, and the
\* EmotePackDeleted of dequip_emote_pack reaches only the user that dequipped:
\* the context of either broadcast lets no other user through, and a stream is
\* delivered either event only if it subscribed to Homeserver and its user is in
\* the broadcast's context.
C15_EmoteTargets ==
    [][/\ (bus_pos' = bus_pos + 1 /\ Published.b.event.type = "EmotePackEmotesUpdated")
            => \A u \in Users :
                  (Published.b.context = {} \/ u \in Published.b.context)
                    => <<u, Published.b.event.pack_id>> \in equipped
       /\ (bus_pos' = bus_pos + 1 /\ Published.b.event.type = "EmotePackDeleted")
            => \E t \in Tasks : /\ task'[t].op = "dequip_emote_pack"
                                /\ task'[t].pc = "done" /\ task[t].pc # "done"
                                /\ Published.b.context = task'[t].caller
       /\ \A s \in AllStreams :
            (Reads(s) /\ OutcomeOf(s) = {"delivered"}
                /\ EntryRead(s).b.event.type \in {"EmotePackEmotesUpdated", "EmotePackDeleted"})
              => /\ HomeserverSub \in stream[s].subs
                 /\ stream[s].user \cap EntryRead(s).b.context # {}]_vars


\* C16: a leave_guild or kick_user that removed the member and published
\* LeftMember returns success to its caller whether the federation dispatch
\* that follows succeeds or fails.
C16_DispatchFailureHidden ==
    [][\A t \in Tasks :
          (task[t].op \in {"leave_guild", "kick_user"} /\ task[t].pc = "publish"
              /\ task'[t].pc = "done")
            => task'[t].result = "Ok"]_vars


\* C17: verify_token answers Ok exactly when the token's signature is a
\* well-formed Ed25519 signature that verifies the token's data under the given
\* public key; a malformed signature gives InvalidTokenSignature, a well-formed
\* one that does not verify gives CouldntVerifyTokenData, and the verification
\* itself writes nothing (the key file is untouched and a verified token leaves
\* the key cache as it was).
C17_VerifyToken ==
    [][\A f \in FedTasks :
          (fed[f].op = "auth" /\ fed[f].pc = "verify" /\ fed'[f].pc = "done")
            => \A t \in fed[f].token : \A k \in fed[f].key :
                  LET wellformed == t.sig.wf
                      verifies == t.sig.by = k /\ t.sig.over = t.data
                  IN /\ fed'[f].result = "Ok" <=> (wellformed /\ verifies)
                     /\ ~wellformed => fed'[f].result = "InvalidTokenSignature"
                     /\ (wellformed /\ ~verifies) => fed'[f].result = "CouldntVerifyTokenData"
                     /\ key_file' = key_file
                     /\ fed'[f].result = "Ok" => keys' = keys]_vars

\* a token signed with the host's key over other data was refused, another
\* with a malformed signature too, each with its own error
C17_Witness ==
    \E f, g \in FedTasks :
       /\ fed[f].op = "auth" /\ fed[f].pc = "done"
       /\ fed[f].result = "CouldntVerifyTokenData"
       /\ \E t \in fed[f].token : t.sig.wf /\ t.sig.by \in fed[f].key /\ t.sig.over # t.data
       /\ fed[g].op = "auth" /\ fed[g].pc = "done"
       /\ fed[g].result = "InvalidTokenSignature"


\* a call of get_key (on its own or from the inbound authentication) starts in
\* this step
StartsGetKey(f, h) ==
    fed[f].pc = "idle" /\ fed'[f].op \in {"get_key", "auth"} /\ fed'[f].host = h

\* C18: once a get_key(h) has succeeded, every get_key(h) that starts before
\* the next invalidate_key(h) returns that same key without a key request; a
\* failed request or a text parse_pem refuses gives CantGetHostKey(h) and
\* creates no cache entry; a call for h leaves the entries of the other hosts
\* alone.
C18_KeyCache ==
    [][\A f \in FedTasks :
          /\ \A h \in Hosts :
                (StartsGetKey(f, h) /\ key_log[h].granted # {})
                  => /\ fed'[f].key = key_log[h].granted
                     /\ fed'[f].pc # "fetch" /\ ~fed'[f].fetched
          /\ (fed[f].pc = "fetch" /\ fed'[f].pc = "done" /\ fed'[f].result # "Ok")
                => /\ fed'[f].result = "CantGetHostKey"
                   /\ fed'[f].err_host = {fed[f].host}
                   /\ keys' = keys
          /\ (fed[f].op \in {"get_key", "auth"} /\ fed'[f] # fed[f])
                => \A h \in Hosts \ {fed[f].host} :
                      /\ h \in DOMAIN keys <=> h \in DOMAIN keys'
                      /\ h \in DOMAIN keys => keys'[h] = keys[h]]_vars


\* C19: when the verification of an inbound token of host h has failed, h's
\* cached key is gone and the next get_key(h) to start sends the key request
\* again.
C19_RefetchAfterFailure ==
    [][\A f \in FedTasks :
          /\ (fed[f].op = "auth" /\ fed[f].pc = "verify" /\ fed'[f].pc = "done"
                /\ fed'[f].result # "Ok")
               => fed[f].host \notin DOMAIN keys'
          /\ \A h \in Hosts :
                (StartsGetKey(f, h) /\ key_log[h].stale) => fed'[f].pc = "fetch"]_vars


\* C20: every get_own_key that returns a keypair returns the content of the key
\* file, also when the first calls run side by side while the file does not
\* exist yet: they end with one keypair, the one the file holds.
C20_OneOwnKey ==
    \A f \in FedTasks :
       (fed[f].op = "get_own_key" /\ fed[f].pc = "done" /\ fed[f].result = "Ok")
         => fed[f].key = key_file


\* C21: in every reachable state the two directions of the id mapping agree:
\* local_to_foreign_id(l) is (f, h) exactly when foreign_to_local_id(f, h) is l.
C21_IdBijection ==
    \A l \in LocalUserIds, f \in ForeignUserIds, h \in Hosts :
       local_to_foreign_id(l) = {<<f, h>>} <=> foreign_to_local_id(f, h) = {l}

\* the same foreign id is mapped on two hosts to two local ids, ids above
\* one byte among them
C21_Witness ==
    /\ local_to_foreign_id(260) = {<<261, "h1">>}
    /\ local_to_foreign_id(3) = {<<261, "h2">>}
    /\ foreign_to_local_id(261, "h1") = {260}


\* C22: whatever joins, leaves and kicks have happened, a user is listed by
\* get_guild_members(G) exactly when the member key (G, U) is in the chat tree,
\* and nothing but such users is listed.
C22_MemberList ==
    \A g \in GuildIds :
       /\ \A u \in Users :
             make_member_key(g, u) \in chat_tree_keys <=> u \in get_guild_members_logic(g)
       /\ get_guild_members_logic(g) \subseteq Users

\* a kicked user is off the list of a guild that still lists its other member,
\* while a roles-of-user key sits in the tree
C22_Witness ==
    /\ \E t \in Tasks :
          /\ task[t].op = "kick_user" /\ task[t].pc = "done" /\ task[t].result = "Ok"
          /\ task[t].arg \notin get_guild_members_logic(42)
    /\ 1 \in get_guild_members_logic(42)
    /\ user_roles # {}


\* C23: once the handler of a stream has returned (the connection is Closed)
\* nothing more happens on the connection: the receive loop processes no
\* further request, no subscription enters the set and the send loop reads no
\* further broadcast.
C23_ClosedTerminal ==
    [][\A s \in AllStreams :
          stream[s].status = "closed"
            => /\ ~(/\ stream[s].recv = "running" /\ stream[s].inbox # {}
                    /\ stream'[s].inbox = {}
                    /\ stream'[s].recv \in {"running", "sending"})
               /\ stream'[s].subs \subseteq stream[s].subs
               /\ stream'[s].next = stream[s].next \/ stream'[s].status = "none"]_vars


\* C24: a leave_guild whose removal of the member key fails, and a kick_user
\* whose kick_user_logic fails, return the DbError at once: the member stays,
\* no LeftMember is published and no federation dispatch is enqueued, and a
\* handler in its removal step ends in no other way without going on to publish.
C24_ShortCircuit ==
    [][\A t \in Tasks :
          (/\ task[t].op \in {"leave_guild", "kick_user"}
           /\ task[t].pc \in {"remove", "kick"}
           /\ task'[t] # task[t])
            => \/ /\ task'[t].pc = "publish"
                  /\ <<task[t].guild, IF task[t].op = "kick_user" THEN task[t].arg
                                      ELSE CallerOf(task[t])>> \notin members'
               \/ /\ task'[t].pc = "done"
                  /\ task'[t].result = "DbError"
                  /\ task'[t].sent = << >> /\ task'[t].disp = << >>
                  /\ members' = members /\ user_roles' = user_roles
                  /\ bus' = bus /\ bus_pos' = bus_pos]_vars

\* a leave_guild has ended with DbError: the caller is still a member, nothing
\* was published or dispatched
C24_Witness ==
    \E t \in Tasks :
       /\ task[t].op = "leave_guild" /\ task[t].pc = "done"
       /\ task[t].result = "DbError"
       /\ <<task[t].guild, CallerOf(task[t])>> \in members
       /\ task[t].sent = << >> /\ task[t].disp = << >>


\* C25: get_own_key writes the key file only when the file is missing; a call
\* that reads a persisted keypair returns that keypair; a read error other than
\* NotFound, or content that is no keypair, gives CantGetKey; and a file that
\* exists is never overwritten.
C25_OwnKeyPersisted ==
    [][/\ key_file' # key_file => key_file = {}
       /\ \A f \in FedTasks :
            (fed[f].pc = "idle" /\ fed'[f].op = "get_own_key")
              => /\ fed'[f].pc = "write" => key_file = {}
                 /\ (fed'[f].pc = "done" /\ fed'[f].result = "Ok")
                      => /\ fed'[f].key = key_file /\ key_file \subseteq KeyVals
                         /\ key_file # {}
                 /\ (key_file # {} /\ ~(key_file \subseteq KeyVals))
                      => fed'[f].pc = "done" /\ fed'[f].result = "CantGetKey"
                 /\ fed'[f].pc = "done" => fed'[f].result \in {"Ok", "CantGetKey"}
                 /\ key_file' = key_file]_vars

\* a call has returned the keypair an earlier call generated and persisted
C25_Witness ==
    \E f \in FedTasks :
       /\ fed[f].op = "get_own_key" /\ fed[f].pc = "done" /\ fed[f].result = "Ok"
       /\ ~fed[f].generated
       /\ fed[f].key = key_file /\ key_file # {}


\* C26: a pull answers with events only after its request was authenticated as
\* a host, and then with that host's queue: every event in the answer was
\* queued for that host; a pull whose authentication fails ends with the error
\* and has read no queue.
C26_PullOwnQueue ==
    [][\A p \in PullTasks :
          /\ (pull[p].pc = "idle" /\ pull'[p].pc = "done")
               => /\ pull'[p].result # "Ok"
                  /\ pull'[p].read = {} /\ pull'[p].queue = << >>
          /\ (pull[p].pc = "idle" /\ pull'[p].pc = "queue")
               => \A t \in pull'[p].token :
                     /\ pull'[p].host = {pull'[p].claimed}
                     /\ t.sig.wf /\ t.sig.by = HostKey(pull'[p].claimed)
                     /\ t.sig.over = t.data
          /\ (pull[p].pc = "queue" /\ pull'[p].pc = "done")
               => /\ pull'[p].read = pull[p].host
                  /\ \A i \in 1..Len(pull'[p].queue) : {pull'[p].queue[i].dest} = pull[p].host
                  /\ pull'[p].result = "Ok"
                       => \A h \in pull[p].host : pull'[p].queue = sync_queue[h]]_vars

\* a host has pulled its queue of two events while the other host's queue has
\* events too
C26_Witness ==
    \E p \in PullTasks :
       /\ pull[p].pc = "done" /\ pull[p].result = "Ok" /\ pull[p].host = {"h1"}
       /\ Len(pull[p].queue) = 2
       /\ sync_queue["h2"] # << >>


\* C27: the verifier verifies once after each period it slept; a verification
\* that fails stops it, and a stopped verifier never acts again, while the
\* server goes on accepting requests; a verification that succeeds puts it
\* back to sleep for the next period.
C27_VerifierStops ==
    [][/\ verifier'.runs * INTEGRITY_VERIFICATION_PERIOD <= verifier'.slept
       /\ verifier'.slept <= (verifier'.runs + 1) * INTEGRITY_VERIFICATION_PERIOD
       /\ verifier'.runs # verifier.runs =>
             /\ verifier'.runs = verifier.runs + 1
             /\ verifier'.found # "Ok" => verifier'.pc = "stopped"
             /\ verifier'.found = "Ok" => verifier'.pc = "sleeping"
             /\ boot' = boot
       /\ verifier.pc = "stopped" =>
             /\ verifier' = verifier
             /\ (boot.pc = "shell" /\ boot.served < MaxServed) => ENABLED Serve
       /\ (verifier.pc = "sleeping" /\ Running
             /\ verifier.slept < MaxPeriods * INTEGRITY_VERIFICATION_PERIOD)
            => ENABLED VerifierSleep]_vars

\* the second verification failed, the verifier has stopped and the server has
\* accepted a request
C27_Witness ==
    /\ verifier.pc = "stopped" /\ verifier.runs = 2 /\ verifier.found = "AuthErr"
    /\ boot.pc = "shell" /\ boot.served = 1

\* C28: once the shutdown of the server is requested, a verifier that is at
\* the top of its loop starts no further verification.
C28_ShutdownHonoured ==
    [][(boot.pc = "returned" /\ verifier.pc = "sleeping")
          => verifier'.pc # "verifying"]_vars

\* C29: the stored version changes only in a start that found a version
\* mismatch and has a complete backup under the name of the version it found;
\* a failed backup ends the start, after which the database is not touched; a
\* request is accepted only once the database is at the version of the build.
C29_MigrateAfterBackup ==
    [][/\ db'.version # db.version =>
             /\ boot.pc = "migrate"
             /\ boot.current_db_version # SchemaVersion
             /\ [name |-> <<"db", "_backup_ver_", boot.current_db_version>>,
                 version |-> boot.current_db_version, complete |-> TRUE] \in db.backups
       /\ (\E b \in db'.backups \ db.backups : ~b.complete) => boot'.pc = "panicked"
       /\ boot.pc = "panicked" => db' = db /\ boot' = boot
       /\ db'.backups # db.backups => get_db_version(db.version)[2]
       /\ boot'.served # boot.served =>
             /\ boot.pc \in {"shell", "returned"}
             /\ db.version = SchemaVersion
       /\ boot'.served > 0 => db'.version = SchemaVersion]_vars

\* a database of version 0 was backed up and migrated, and the server has
\* accepted a request
C29_Witness ==
    /\ boot.served > 0
    /\ boot.current_db_version = 0
    /\ db.version = SchemaVersion
    /\ \E b \in db.backups : b.complete /\ b.version = 0


\* the number of times a value occurs in a sequence
RECURSIVE Count(_, _)
Count(v, seq) ==
    IF seq = << >> THEN 0
    ELSE (IF Head(seq) = v THEN 1 ELSE 0) + Count(v, Tail(seq))

\* C30: whenever every append has returned, an iteration of the list yields
\* each value as many times as it was appended; and an append that is under
\* way returns.
C30_AppendList ==
    /\ []((\A a \in Appenders : appender[a].pc = "idle")
            => \A v \in ListValues :
                  Count(v, iter) = Cardinality({n \in Allocated : cell[n].value = v}))
    /\ \A a \in Appenders : (appender[a].pc = "cas") ~> (appender[a].pc = "idle")

\* three appends have returned, two of them of the same value
C30_Witness ==
    /\ \A a \in Appenders : appender[a].pc = "idle"
    /\ Cardinality(Allocated) = 3
    /\ Len(iter) = 3
    /\ Count("x", iter) = 2


\* the nodes and the values an iteration yields now
NodesNow == nodes_from(0, MaxNodes + 2)
ValuesNow == [i \in 1..Len(NodesNow) |-> cell[NodesNow[i]].value]

\* C31: a pointer that has been set and the value of a node never change, so
\* what an iteration yields is a prefix of what any later iteration yields;
\* and of two nodes appended by the same thread, the one appended first comes
\* first in the list.
C31_AppendOnly ==
    [][/\ \A n \in DOMAIN cell :
             /\ cell[n].next # null => cell'[n].next = cell[n].next
             /\ cell'[n].value = cell[n].value
       /\ Len(NodesNow) <= Len(NodesNow')
       /\ SubSeq(NodesNow', 1, Len(NodesNow)) = NodesNow
       /\ SubSeq(ValuesNow', 1, Len(ValuesNow)) = ValuesNow
       /\ \A i, j \in 1..Len(NodesNow') :
             (cell'[NodesNow'[i]].by = cell'[NodesNow'[j]].by /\ NodesNow'[i] < NodesNow'[j])
                => i < j]_vars

\* a thread has appended twice, after another thread's append, and both its
\* nodes are in the list
C31_Witness ==
    /\ Len(NodesNow) = 3
    /\ cell[NodesNow[1]].by = "a2"
    /\ cell[NodesNow[2]].by = "a1" /\ cell[NodesNow[3]].by = "a1"
    /\ cell[NodesNow[2]].value = "y" /\ cell[NodesNow[3]].value = "x"


\* the handlers that have published a LeftMember for the member, and those
\* that have handed its leave to the federation
Leavers(g, u) ==
    {t \in Tasks : \E i \in 1..Len(task[t].sent) :
        /\ task[t].sent[i].event.type = "LeftMember"
        /\ task[t].sent[i].event.guild_id = g /\ task[t].sent[i].event.member_id = u}
LeaveDispatchers(g, u) ==
    {t \in Tasks : \E i \in 1..Len(task[t].disp) : task[t].disp[i] = GuildLeaveDispatch(g, u)}

\* C32: no membership is ever joined again here, so each ends at most once:
\* at most one handler publishes a LeftMember for it and at most one hands its
\* leave to the federation.
C32_OneLeftMember ==
    \A u \in Users :
       /\ Cardinality(Leavers(42, u)) <= 1
       /\ Cardinality(LeaveDispatchers(42, u)) <= 1


\* the entry is the LeftMember of user u in guild g
IsLeftMemberOf(e, g, u) ==
    /\ e.b.event.type = "LeftMember"
    /\ e.b.event.guild_id = g /\ e.b.event.member_id = u

\* C33: no guild is joined again here; a stream is not handed a broadcast of a
\* guild that was published after the LeftMember of the stream's user in that
\* guild.
C33_NoEventAfterLeft ==
    [][\A s \in AllStreams : \A e \in NextEntry(s) :
          (/\ stream'[s].last = {[pos |-> e.pos, outcome |-> "delivered"]}
           /\ stream'[s].next = stream[s].next + 1
           /\ e.b.sub.kind = "Guild")
          => ~\E i \in 1..Len(bus) :
                 /\ bus[i].pos < e.pos
                 /\ \E u \in stream[s].user : IsLeftMemberOf(bus[i], e.b.sub.id, u)]_vars


\* the entry under the url of call m is 30 minutes old or older
Expired(m) ==
    \E r \in mp[m].raw_url : r \in DOMAIN cache /\ clock - cache[r].since >= EXPIRY

\* C34: a lookup answers with an entry only when the entry is under the url
\* and was inserted less than 30 minutes before; a lookup that finds an older
\* entry goes on to remove it, returns nothing, and the call goes on to its
\* HTTP request; so does a call that finds no entry.
C34_NoStaleEntry ==
    [][\A m \in MpTasks :
          /\ (mp[m].pc = "get" /\ mp'[m].from_cache)
               => /\ ~Expired(m)
                  /\ \E r \in mp[m].raw_url :
                        /\ r \in DOMAIN cache
                        /\ mp'[m].metadata = cache[r].value
                  /\ mp'[m].pc = "done" /\ mp'[m].http = 0
          /\ (mp[m].pc = "get" /\ mp'[m].pc # "get" /\ Expired(m))
               => mp'[m].pc = "remove" /\ ~mp'[m].from_cache
          /\ (mp[m].pc = "remove" /\ mp'[m].pc # "remove")
               => /\ mp[m].raw_url \cap DOMAIN cache' = {}
                  /\ mp'[m].pc = "request" /\ ~mp'[m].from_cache
          /\ (mp[m].pc = "get" /\ mp'[m].pc # "get"
                /\ mp[m].raw_url \cap DOMAIN cache = {})
               => mp'[m].pc \in {"request", "done"} /\ ~mp'[m].from_cache]_vars

\* an entry inserted 30 minutes ago was found and removed, and the call is
\* about to make its HTTP request
C34_Witness ==
    \E m \in MpTasks : \E r \in mp[m].raw_url :
       /\ mp[m].pc = "request"
       /\ fetch_log[r] = {0} /\ clock = EXPIRY
       /\ r.path = "/" /\ r \notin DOMAIN cache

\* C35: an entry leaves the cache only when it is 30 minutes old or older.
C35_OnlyExpiredRemoved ==
    [][\A k \in DOMAIN cache :
          k \notin DOMAIN cache' => clock - cache[k].since >= EXPIRY]_vars

\* C36: with one call at a time, a call makes no HTTP request for a url that
\* parses when fetch_metadata succeeded for the same url less than 30 minutes
\* before; and the cache changes only in a fetch that succeeds.
C36_AnsweredFromCache ==
    [][\A m \in MpTasks :
          /\ mp'[m].http > mp[m].http
               => \A r \in mp[m].raw_url : \A t \in fetch_log[r] : clock - t >= EXPIRY
          /\ (cache' # cache /\ mp[m].pc = "insert") => mp'[m].result = "Ok"]_vars


\* the profile of a user as get_profile_logic would read it, the default one
\* standing for none
ProfileOf(ps, u) == IF u \in DOMAIN ps THEN ps[u] ELSE DefaultProfile

\* C37: the write of an update sets the fields the call was given and leaves
\* the other fields of the user's profile, and the other users' profiles, as
\* they are.
C37_UpdateProfile ==
    [][\A p \in UpdTasks :
          (upd[p].pc = "insert" /\ upd'[p].result = "Ok") =>
             \A new \in upd[p].new :
                /\ profiles'[upd[p].user_id] = apply_update(ProfileOf(profiles, upd[p].user_id), new)
                /\ \A u \in Users \ {upd[p].user_id} :
                      ProfileOf(profiles', u) = ProfileOf(profiles, u)]_vars


====
